---- MODULE Spec2Model ----
(***************************************************************************)
(* Model of the Udemy free-courses bot (src/botcode.py): the posted-course *)
(* store (CourseDatabase), the scheduled pass (process_courses) and the    *)
(* operator commands (/test, /test_scrape, /test_sample).                  *)
(*                                                                         *)
(* Text is modelled as a sequence of symbols.  A symbol is one character,  *)
(* except for four fixed substrings that the code only ever treats as a    *)
(* whole and that are written as one symbol: SITE, UDEMY, GO and COURSE.   *)
(* The Python values None and '' are both the empty sequence: every test   *)
(* the code makes on them is a truthiness test.                            *)
(***************************************************************************)
EXTENDS Integers, Sequences, FiniteSets, TLC

SITE == "https://www.couponami.com"
UDEMY == "https://www.udemy.com"
GO == "/go/"
COURSE == "/course/"
None == <<>>

(***************************************************************************)
(* Text helpers                                                            *)
(***************************************************************************)

\* str.lower() on one symbol (the upper-case letters of the alphabet used).
Lower(c) ==
  CASE c = "A" -> "a"
    [] c = "B" -> "b"
    [] c = "P" -> "p"
    [] c = "C" -> "c"
    [] OTHER -> c

LowerStr(s) == [i \in 1..Len(s) |-> Lower(s[i])]

\* Characters matched by \w and by \s in the title regex.
WordChars == {"a", "b", "c", "d", "e", "h", "i", "m", "n", "o", "p", "r", "s", "t", "u",
              "y", "A", "B", "C", "P", "0", "1", "2", "_"}
SpaceChars == {" "}

RECURSIVE Normalize(_)
\* re.sub(r'[?#].*$', '', url): cut at the first '?' or '#'.
Normalize(url) ==
  IF url = <<>> THEN <<>>
  ELSE IF Head(url) \in {"?", "#"} THEN <<>>
  ELSE <<Head(url)>> \o Normalize(Tail(url))

RECURSIVE LikeMatch(_, _)
\* SQLite's LIKE: '%' matches any run of symbols, '_' any one symbol, and
\* letters compare without regard to case.
LikeMatch(pat, s) ==
  IF pat = <<>> THEN s = <<>>
  ELSE IF Head(pat) = "%"
       THEN LikeMatch(Tail(pat), s) \/ (s # <<>> /\ LikeMatch(pat, Tail(s)))
       ELSE /\ s # <<>>
            /\ (Head(pat) = "_" \/ Lower(Head(pat)) = Lower(Head(s)))
            /\ LikeMatch(Tail(pat), Tail(s))

\* Python's  sub in s  on strings.
Contains(sub, s) ==
  \E i \in 0..(Len(s) - Len(sub)) : SubSeq(s, i + 1, i + Len(sub)) = sub

RECURSIVE Strip(_)
\* str.strip(): drop leading and trailing whitespace.
Strip(s) ==
  IF s = <<>> THEN <<>>
  ELSE IF Head(s) \in SpaceChars THEN Strip(Tail(s))
  ELSE IF s[Len(s)] \in SpaceChars THEN Strip(SubSeq(s, 1, Len(s) - 1))
  ELSE s

\* re.sub(r'[^\w\s]', '', title.lower().strip())
NormTitle(title) ==
  SelectSeq(Strip(LowerStr(title)), LAMBDA c : c \in WordChars \cup SpaceChars)

RECURSIVE SlugRun(_)
\* The longest run of symbols matching [^/?] at the start of s.
SlugRun(s) ==
  IF s = <<>> THEN <<>>
  ELSE IF Head(s) \in {"/", "?", GO, COURSE, SITE, UDEMY} THEN <<>>
  ELSE <<Head(s)>> \o SlugRun(Tail(s))

RECURSIVE CourseSlug(_)
\* re.search(r'/course/([^/?]+)', url).group(1), or None when nothing matches.
CourseSlug(url) ==
  IF url = <<>> THEN None
  ELSE IF Head(url) = COURSE /\ SlugRun(Tail(url)) # <<>> THEN SlugRun(Tail(url))
  ELSE CourseSlug(Tail(url))

(***************************************************************************)
(* Input universes.  Every listing URL is absolute (scrape_couponami builds *)
(* it from the site base or keeps an http(s) link), so none is empty or    *)
(* starts with '?' or '#'.                                                 *)
(***************************************************************************)

L_a == <<SITE, GO, "a">>
L_aq == <<SITE, GO, "a", "?", "r">>
L_af == <<SITE, GO, "a", "#", "f">>
L_ab == <<SITE, GO, "a", "b">>
L_A == <<SITE, GO, "A">>
L_u == <<SITE, GO, "_">>
L_d == <<SITE, "/", "d", "/", "p">>

Links == {L_a, L_aq, L_af, L_ab, L_A, L_u, L_d}

U_x == <<UDEMY, COURSE, "x">>
U_xq == <<UDEMY, COURSE, "x", "?", "k">>
U_y == <<UDEMY, COURSE, "y">>

Udemys == {None, U_x, U_xq, U_y}

T_py == <<"P", "y", "t", "h", "o", "n", " ", "B", "o", "o", "t", "c", "a", "m", "p">>
T_pyv == <<"p", "y", "t", "h", "o", "n", " ", "b", "o", "o", "t", "c", "a", "m", "p", "!">>
T_c == <<"C", " ", "B", "a", "s", "i", "c", "s">>
T_pyl == T_py \o <<" ", "B", "a", "s", "i", "c", "s", " ", "2">>
T_pyl2 == T_pyl \o <<"n", "d">>

Titles == {T_py, T_pyv, T_c, T_pyl, T_pyl2}

\* The query-string and fragment variants of a listing URL, itself included.
Variants(u) == {v \in Links : Normalize(v) = Normalize(u)}

(***************************************************************************)
(* CourseDatabase: the table posted_courses is the sequence db of rows;    *)
(* a row's id is its position.  posted_at is written by mark_posted and    *)
(* read by no operation modelled here; it is left out of the row.          *)
(***************************************************************************)

\* The shortest normalized title that is compared at all (len > 10).
MinTitleLen == 10
\* A normalized title longer than this also matches by containment (len > 20).
ContainTitleLen == 20

\* SelectByLink as it would be with the LIKE clause left out: the link as given only.
SelectByLinkExactOnly(rows, coupon_link) ==
  \E i \in 1..Len(rows) : rows[i].coupon_link = coupon_link

\* SelectByLink as it would be with the LIKE pattern built from the link as given.
SelectByLinkAsGiven(rows, coupon_link) ==
  \E i \in 1..Len(rows) :
    \/ rows[i].coupon_link = coupon_link
    \/ LikeMatch(coupon_link \o <<"%">>, rows[i].coupon_link)

\* SELECT 1 FROM posted_courses WHERE coupon_link = ? OR coupon_link LIKE ?
\* with the parameters (coupon_link, normalized_coupon + '%').
SelectByLink(rows, coupon_link) ==
  \E i \in 1..Len(rows) :
    \/ rows[i].coupon_link = coupon_link
    \/ LikeMatch(Normalize(coupon_link) \o <<"%">>, rows[i].coupon_link)

\* SelectBySlug as it would be with the pattern 'slug%'.
SelectBySlugAnchored(rows, slug) ==
  \E i \in 1..Len(rows) : LikeMatch(slug \o <<"%">>, rows[i].udemy_url)

\* SELECT udemy_url FROM posted_courses WHERE udemy_url LIKE '%slug%'
SelectBySlug(rows, slug) ==
  \E i \in 1..Len(rows) : LikeMatch(<<"%">> \o slug \o <<"%">>, rows[i].udemy_url)

\* The title comparison of is_posted, method 3.
\* The comparison with the two containment tests left out.
TitleMatchEqualOnly(normalized_title, normalized_posted) ==
  normalized_title = normalized_posted

TitleMatch(normalized_title, normalized_posted) ==
  \/ normalized_title = normalized_posted
  \/ Len(normalized_title) > ContainTitleLen /\ Contains(normalized_title, normalized_posted)
  \/ Len(normalized_posted) > ContainTitleLen /\ Contains(normalized_posted, normalized_title)

SelectByTitle(rows, course_title) ==
  /\ Len(NormTitle(course_title)) > MinTitleLen
  /\ \E i \in 1..Len(rows) :
       /\ rows[i].course_title # <<>>
       /\ TitleMatch(NormTitle(course_title), NormTitle(rows[i].course_title))

\* CourseDatabase.is_posted without a storage error.
is_posted(rows, coupon_link, udemy_url, course_title) ==
  \/ coupon_link # <<>> /\ SelectByLink(rows, coupon_link)
  \/ /\ udemy_url # <<>>
     /\ CourseSlug(Normalize(udemy_url)) # None
     /\ SelectBySlug(rows, CourseSlug(Normalize(udemy_url)))
  \/ course_title # <<>> /\ SelectByTitle(rows, course_title)

\* The row mark_posted would insert with the URLs as given.
NewRowAsGiven(course_title, coupon_link, udemy_url, source) ==
  [course_title |-> course_title, coupon_link |-> coupon_link,
   udemy_url |-> udemy_url, source |-> source]

\* The row mark_posted inserts: the URLs normalized, or as given when the
\* normalized form is empty.
NewRow(course_title, coupon_link, udemy_url, source) ==
  [course_title |-> course_title,
   coupon_link |-> IF Normalize(coupon_link) # <<>> THEN Normalize(coupon_link) ELSE coupon_link,
   udemy_url |-> IF Normalize(udemy_url) # <<>> THEN Normalize(udemy_url) ELSE udemy_url,
   source |-> source]

\* The UNIQUE constraint on coupon_link: the INSERT raises IntegrityError.
IntegrityError(rows, row) == \E i \in 1..Len(rows) : rows[i].coupon_link = row.coupon_link

\* INSERT INTO posted_courses ... ; commit.  A row that breaks the constraint
\* is not added.
Insert(rows, row) == IF IntegrityError(rows, row) THEN rows ELSE Append(rows, row)

\* mark_posted as it would be without normalization: the link stored and looked up
\* as given.
mark_posted_as_given(rows, course_title, coupon_link, udemy_url, source) ==
  IF \E i \in 1..Len(rows) : rows[i].coupon_link = coupon_link THEN rows
  ELSE Append(rows, [course_title |-> course_title, coupon_link |-> coupon_link,
                     udemy_url |-> udemy_url, source |-> source])

\* CourseDatabase.mark_posted without a storage error: the table afterwards.
mark_posted(rows, course_title, coupon_link, udemy_url, source) ==
  IF SelectByLink(rows, coupon_link) THEN rows
  ELSE Insert(rows, NewRow(course_title, coupon_link, udemy_url, source))

\* The number of stored rows whose normalized coupon_link is that of u.
RowsFor(rows, u) ==
  Cardinality({i \in 1..Len(rows) : Normalize(rows[i].coupon_link) = Normalize(u)})

(***************************************************************************)
(* The pipeline's inputs and locals                                        *)
(***************************************************************************)

\* At most this many candidates come out of one scrape of the page.
MaxPage == 2
\* The count of scheduled publishes of one listing stops at this value.
MaxPubCount == 2

\* The candidates the page can show: the dicts scrape_couponami appends, cut to
\* the two keys the store reads.
K_a == [title |-> T_py, coupon_link |-> L_a]
K_aq == [title |-> T_c, coupon_link |-> L_aq]
K_ab == [title |-> T_c, coupon_link |-> L_ab]
K_d == [title |-> T_pyv, coupon_link |-> L_d]

PageCands == {K_a, K_aq, K_ab, K_d}

\* What scrape_all can return when the page shows candidates of cands: at most
\* MaxPage of them, no two with the same normalized URL (seen_urls); the empty
\* list also stands for a failed fetch.
PagesOf(cands) ==
  {p \in UNION {[1..n -> cands] : n \in 0..MaxPage} :
     \A i, j \in 1..Len(p) :
       i # j => Normalize(p[i].coupon_link) # Normalize(p[j].coupon_link)}

Pages == PagesOf(PageCands)

\* The pages scraped while scheduled pass and command handler share the loop.
SharedPages == PagesOf({K_a, K_d})

\* The Udemy URL each listing leads to; L_d leads to the course L_a leads to.
DestinationOf(coupon_link) ==
  CASE Normalize(coupon_link) = L_a -> U_xq
    [] Normalize(coupon_link) = L_d -> U_x
    [] OTHER -> U_y

\* What get_udemy_course_info can return for a listing: its destination, or
\* nothing when the request or the search of the landing page fails.
Resolutions(coupon_link) == {None, DestinationOf(coupon_link)}

\* The resolver results for a whole page, candidate by candidate.
PageResolutions(page) ==
  {[i \in 1..Len(page) |-> IF i \in found THEN DestinationOf(page[i].coupon_link) ELSE None] :
     found \in SUBSET (1..Len(page))}

NormLinks == {Normalize(l) : l \in Links}

NoPublishes == [n \in NormLinks |-> 0]

\* The latest post_course call of a pass: the listing posted, what post_course
\* returned, and the listing handed to mark_posted right after it (None when
\* mark_posted was not called).
NoEvent == [link |-> None, ok |-> FALSE, rec |-> None]

PostEvent(course, success, recorded) ==
  [link |-> course.coupon_link, ok |-> success,
   rec |-> IF recorded THEN course.coupon_link ELSE None]

\* pubs: the listings this pass has posted with success; ev: its latest post;
\* werr: the mark_posted call of that post hit a storage error; erred: the
\* listings whose is_posted call hit one; scraped, resolves: the candidates
\* scrape_all returned and the get_udemy_course_info calls made for them; found,
\* posted_count, failed_count: the figures of the pass's final summary; page: the
\* listing URLs scrape_all returned, in its order.
IdlePass ==
  [pc |-> "idle", page |-> <<>>, new |-> <<>>, idx |-> 0, dropped |-> {}, pubs |-> {}, ev |-> NoEvent,
   werr |-> FALSE, erred |-> {}, scraped |-> 0, resolves |-> 0,
   found |-> 0, posted_count |-> 0, failed_count |-> 0]

\* context.args of a command given without an argument.
NoArg == [given |-> FALSE, int |-> FALSE, val |-> 0]

\* arg, num, scraped, page: context.args[0] of /test, its num_courses, and the
\* number and the listing URLs of the candidates its scrape_all returned.
\* No exception met a handler.  raised: an exception was raised in the handler;
\* bound: status_msg was assigned before it; msg: the error message the operator
\* got ("edited" into the status message, "sent" as a new one, or "none");
\* escaped: an exception left the handler.
NoError == [raised |-> FALSE, bound |-> FALSE, msg |-> "none", escaped |-> FALSE]

IdleCommand ==
  [pc |-> "idle", kind |-> "none", todo |-> <<>>, idx |-> 0, fresh |-> FALSE,
   ev |-> NoEvent, arg |-> NoArg, num |-> 0, scraped |-> 0, page |-> <<>>,
   err |-> NoError]

\* course['udemy_url'] = udemy_url, when the resolver found one.
WithUdemy(course, udemy_url) ==
  [title |-> course.title, coupon_link |-> course.coupon_link, udemy_url |-> udemy_url]

\* The listing URLs of a page, in its order.
LinksOf(page) == [i \in 1..Len(page) |-> page[i].coupon_link]

\* The page with each candidate's resolver result attached.
Resolved(page, res) == [i \in 1..Len(page) |-> WithUdemy(page[i], res[i])]

(***************************************************************************)
(* CouponamiScraper.get_udemy_course_info.  A response is what session.get *)
(* returns after following HTTP redirects: the final URL, the href of each *)
(* <a> of the page in document order, and the onclick of each button (the  *)
(* URL text it carries).                                                   *)
(***************************************************************************)

HOST == "www.udemy.com"
CATEGORY == "/python/"
TAG == "/tag/"
SCHEME == "https://"
COUPONCODE == "couponCode="

InText(tokens, s) == \E i \in 1..Len(s) : s[i] \in tokens

\* '/go/' taken for a link only when the link begins with it.
HasGoOnlyRelative(s) == s # <<>> /\ s[1] = GO

\* 'udemy.com' in s, '/go/' in s, 'couponCode=' in s.
HasUdemy(s) == InText({UDEMY, HOST}, s)
HasGo(s) == InText({GO}, s)
HasCoupon(s) == InText({COUPONCODE}, s)

\* s.startswith('/') and s.startswith('http').
StartsWithSlash(s) == s # <<>> /\ s[1] \in {"/", GO, COURSE, CATEGORY, TAG}
StartsWithHttp(s) == s # <<>> /\ s[1] \in {SITE, UDEMY, SCHEME}

\* The Udemy href as returned: made absolute when it is not.
AbsoluteUdemy(href) ==
  IF StartsWithSlash(href) THEN <<UDEMY>> \o href
  ELSE IF ~StartsWithHttp(href) THEN <<SCHEME>> \o href
  ELSE href

\* The /go/ href followed as the page gives it.
AbsoluteGoAsIs(go_link) == go_link

\* The /go/ href as followed: a relative one is put on the site.
AbsoluteGo(go_link) == IF StartsWithSlash(go_link) THEN <<SITE>> \o go_link ELSE go_link

\* The first element of a sequence, None if it is empty: what soup.find gives, or
\* the element a loop over find_all meets first.
First(s) == IF s = <<>> THEN None ELSE Head(s)

U_xc == <<UDEMY, COURSE, "x", "?", COUPONCODE, "k">>
H_go == <<GO, "a">>
H_rel == <<"d", GO, "a">>
H_host == <<HOST, COURSE, "y">>

Hrefs == {H_go, L_ab, H_rel, U_xc, U_x, H_host, L_d}

MaxHrefs == 2
MaxDepthArg == 5
MaxRecursionDepth == 3

HrefLists == UNION {[1..n -> Hrefs] : n \in 0..MaxHrefs}

\* What a request can come back with; "raise" stands for any exception of
\* session.get or of the parsers.
Responses(coupon_link) ==
  [raise : {FALSE}, url : {coupon_link, U_xc}, hrefs : HrefLists, onclick : {<<>>, <<U_y>>, <<H_host, U_y>>}]
    \cup {[raise |-> TRUE, url |-> None, hrefs |-> <<>>, onclick |-> <<>>]}

NoResponse == [raise |-> TRUE, url |-> None, hrefs |-> <<>>, onclick |-> <<>>]

\* The Udemy URL the /go/ branch takes from a response, None if it finds none.
\* The loop over udemy_links returns at its first element, with or without a
\* coupon code.
FromGoPage(response) ==
  IF HasUdemy(response.url) THEN response.url
  ELSE LET link == First(SelectSeq(response.hrefs, HasUdemy))
           btn == First(SelectSeq(response.onclick, LAMBDA o : HasUdemy(o) /\ StartsWithHttp(o)))
       IN  IF link # None THEN AbsoluteUdemy(link) ELSE btn

\* The Udemy URL the branch for course pages takes when the page has no /go/ link.
FromCoursePage(response) ==
  LET link == First(SelectSeq(response.hrefs, HasUdemy))
  IN  IF link # None THEN AbsoluteUdemy(link) ELSE None

\* recursion_depth > 3
DepthExceededNever(recursion_depth) == FALSE

DepthExceeded(recursion_depth) == recursion_depth > MaxRecursionDepth

IdleResolve ==
  [pc |-> "idle", link |-> None, depth |-> 0, entered |-> 0, requests |-> 0,
   out |-> None, page |-> NoResponse]

(***************************************************************************)
(* CouponamiScraper.scrape_couponami.  The page is the sequence of its <a>  *)
(* elements in document order; of each, what the scraper reads: the href,  *)
(* the stripped text, the first heading of the parent (Absent when there   *)
(* is none), the title attribute of the link or its parent, the parent's   *)
(* text, the first heading of the grandparent, whether the parent holds an *)
(* image, whether the link sits in a card container, and whether parsing   *)
(* it raises (before or after its URL is put in seen_urls).                *)
(***************************************************************************)

PRICE == "$9"
VIEWS == "120 views"
Absent == <<"<none>">>

\* The href tests of the four collecting methods.
IsCategory(href) == InText({CATEGORY}, href)
OnSite(href) == StartsWithSlash(href) \/ InText({SITE}, href)
StartsWithSegment(href) == StartsWithSlash(href) /\ href[1] # "/"
Skipped3(href) == InText({TAG, "#"}, href)
Skipped4(href) == InText({TAG}, href)
\* re.match(r'^/[^/]+/[^/]+', href)
TwoSegments(href) ==
  \/ StartsWithSegment(href) /\ Len(href) >= 2 /\ href[2] \notin {"/", GO, CATEGORY, TAG, COURSE}
  \/ /\ Len(href) >= 4 /\ href[1] = "/" /\ href[3] = "/"
     /\ {href[2], href[4]} \cap {"/", GO, CATEGORY, TAG, COURSE} = {}

\* The links of s whose href is not among the hrefs given or met earlier in s.
RECURSIVE NewByHref(_, _)
NewByHref(s, hrefs) ==
  IF s = <<>> THEN <<>>
  ELSE IF Head(s).href \in hrefs THEN NewByHref(Tail(s), hrefs)
  ELSE <<Head(s)>> \o NewByHref(Tail(s), hrefs \cup {Head(s).href})

HrefsOf(s) == {s[i].href : i \in 1..Len(s)}

\* course_links: methods 1 and 2 take every matching link, methods 3 and 4 only
\* links whose href is not yet in the list.
CourseLinks(page) ==
  LET linked == SelectSeq(page, LAMBDA a : a.href # <<>>)
      m1 == SelectSeq(linked, LAMBDA a : IsCategory(a.href))
      m2 == SelectSeq(linked, LAMBDA a : HasGo(a.href))
      m12 == m1 \o m2
      m3 == NewByHref(SelectSeq(linked, LAMBDA a : a.card /\ OnSite(a.href)
                                                    /\ ~Skipped3(a.href)),
                      HrefsOf(m12))
      m123 == m12 \o m3
      m4 == NewByHref(SelectSeq(linked, LAMBDA a : TwoSegments(a.href) /\ ~Skipped4(a.href)
                                                    /\ (a.img \/ a.heading # Absent)),
                      HrefsOf(m123))
  IN  m123 \o m4

\* course_url with a relative href left as it is.
CourseUrlAsGiven(href) == href

\* course_url: a relative href is put on the site, an absolute one is kept, any
\* other is passed over (None).
CourseUrl(href) ==
  IF StartsWithSlash(href) THEN <<SITE>> \o href
  ELSE IF StartsWithHttp(href) THEN href
  ELSE None

\* The parent's text cleaned: the price and what follows it cut off, view counts
\* taken out, runs of whitespace made one blank, the ends stripped.
RECURSIVE CutPrice(_)
CutPrice(s) ==
  IF s = <<>> \/ Head(s) = PRICE THEN <<>> ELSE <<Head(s)>> \o CutPrice(Tail(s))

RECURSIVE Collapse(_)
Collapse(s) ==
  IF Len(s) < 2 THEN s
  ELSE IF s[1] = " " /\ s[2] = " " THEN Collapse(Tail(s))
  ELSE <<Head(s)>> \o Collapse(Tail(s))

CleanText(s) == Strip(Collapse(SelectSeq(CutPrice(s), LAMBDA c : c # VIEWS)))

\* The length of a text, a whole-symbol token counted with its characters.
RECURSIVE TextLen(_)
TextLen(s) ==
  IF s = <<>> THEN 0
  ELSE (CASE Head(s) = PRICE -> 2 [] Head(s) = VIEWS -> 9 [] OTHER -> 1) + TextLen(Tail(s))

MinTitle == 5

\* not title or len(title) < 5
TooShortNever(title) == FALSE

TooShort(title) == TextLen(title) < MinTitle

\* The title the loop settles on for a link, before the final check.
TitleOf(a) ==
  LET own == a.text
      near == IF ~TooShort(own) THEN own
              ELSE IF a.heading # Absent THEN a.heading
              ELSE IF ~TooShort(a.title) THEN a.title
              ELSE IF a.parent_text # <<>> THEN CleanText(a.parent_text)
              ELSE a.parent_text
  IN  IF TooShort(near) /\ a.gp_heading # Absent THEN a.gp_heading ELSE near

\* The links still to parse after one raised, were the exception to end the loop.
AfterLinkErrorStops(rest) == <<>>

\* The links still to parse after one raised: the except clause continues.
AfterLinkError(rest) == rest

\* normalized_url in seen_urls, were no URL ever taken for seen.
AlreadySeenNever(normalized_url, seen_urls) == FALSE

\* normalized_url in seen_urls
AlreadySeen(normalized_url, seen_urls) == normalized_url \in seen_urls

\* The loop over course_links.
RECURSIVE ScrapeLoop(_, _, _)
ScrapeLoop(links, seen_urls, courses) ==
  IF links = <<>> THEN courses
  ELSE LET a == Head(links)
           rest == Tail(links)
           course_url == CourseUrl(a.href)
           normalized_url == Normalize(course_url)
           title == TitleOf(a)
       IN  IF a.fails = "early" THEN ScrapeLoop(AfterLinkError(rest), seen_urls, courses)
           ELSE IF course_url = None \/ AlreadySeen(normalized_url, seen_urls)
             THEN ScrapeLoop(rest, seen_urls, courses)
           ELSE IF a.fails = "late"
             THEN ScrapeLoop(AfterLinkError(rest), seen_urls \cup {normalized_url}, courses)
           ELSE IF TooShort(title)
             THEN ScrapeLoop(rest, seen_urls \cup {normalized_url}, courses)
           ELSE ScrapeLoop(rest, seen_urls \cup {normalized_url},
                           Append(courses, [title |-> title, coupon_link |-> course_url]))

\* scrape_couponami: a fetch or a parse that raises leaves courses empty.
scrape_couponami(status, page) ==
  IF status = "ok" THEN ScrapeLoop(CourseLinks(page), {}, <<>>) ELSE <<>>

\* The texts and links a page is made of.
X_intro == <<"I", "n", "t", "r", "o", " ", "t", "o", " ", "X">>
X_go == <<"G", "o">>
X_abcd == <<"a", "b", "c", "d">>
X_priced == <<"G", "o", " ", PRICE, " ", VIEWS>>
X_counted == <<"C", " ", " ", "B", "a", "s", "i", "c", "s", " ", VIEWS, " ", PRICE, " ", "o", "f", "f">>

H_abc == <<GO, "a", "b", "c", "1", "2", "3">>

PlainLink(href, text) ==
  [href |-> href, text |-> text, heading |-> Absent, title |-> <<>>,
   parent_text |-> text, gp_heading |-> Absent, img |-> FALSE, card |-> FALSE]

\* /go/abc123 without text, next to an image and a heading, in a card.
A_go == [PlainLink(H_abc, <<>>) EXCEPT !.heading = X_intro, !.parent_text = X_intro,
                                       !.gp_heading = X_intro, !.img = TRUE, !.card = TRUE]
\* The same outside a card, with another heading and a title attribute.
A_go2 == [A_go EXCEPT !.heading = T_py, !.parent_text = T_py, !.gp_heading = T_py,
                      !.title = T_c, !.card = FALSE]
\* A query variant of /go/abc123 with a text of its own.
A_txt == PlainLink(H_abc \o <<"?", "r">>, T_py)
\* A category link whose texts are all too short.
A_short == [PlainLink(<<CATEGORY, "a">>, X_go) EXCEPT !.parent_text = X_priced]
\* A two-segment link next to an image, titled by its title attribute.
A_attr == [PlainLink(<<"/", "d", "/", "p">>, <<>>) EXCEPT !.title = T_c, !.img = TRUE]
\* An absolute /go/ link titled by its parent's cleaned text.
A_ptext == [PlainLink(L_ab, <<>>) EXCEPT !.parent_text = X_counted]
\* A category link titled by its grandparent's heading.
A_gp == [PlainLink(<<CATEGORY, "b">>, X_abcd) EXCEPT !.gp_heading = X_intro]
\* A /go/ link whose only heading is too short.
A_hshort == [PlainLink(<<GO, "b">>, <<>>) EXCEPT !.heading = X_go, !.parent_text = X_go,
                                                 !.gp_heading = X_go]
\* A /go/ href that is neither rooted nor absolute.
A_rel == PlainLink(H_rel, T_py)
\* Links no method collects: a tag page, and a two-segment link with neither image
\* nor heading nor card.
A_tag == [PlainLink(<<TAG, "a">>, T_py) EXCEPT !.img = TRUE]
A_nav == PlainLink(<<"/", "d", "/", "p">>, T_py)
\* A one-segment link in a card.
A_card == [PlainLink(<<"/", "d">>, T_pyl) EXCEPT !.card = TRUE]

Anchors ==
  {A_go, A_go2, A_txt, A_short, A_attr, A_ptext, A_gp, A_hshort, A_rel, A_tag, A_nav, A_card}

MaxAnchors == 2

\* An anchor together with how parsing it goes.
Parsed(a, fails) ==
  [href |-> a.href, text |-> a.text, heading |-> a.heading, title |-> a.title,
   parent_text |-> a.parent_text, gp_heading |-> a.gp_heading, img |-> a.img,
   card |-> a.card, fails |-> fails]

PageLinks == {Parsed(a, f) : a \in Anchors, f \in {"no", "early", "late"}}

Markups == UNION {[1..n -> PageLinks] : n \in 0..MaxAnchors}

IdleExtract == [pc |-> "idle", status |-> "ok", page |-> <<>>, courses |-> <<>>]

\* TELEGRAM_BOT_TOKEN and TELEGRAM_CHANNEL_ID: left at the placeholder or set.
Configs == [token : {"placeholder", "set"}, channel : {"placeholder", "set"}]

\* The process before main() runs.  status: the exit status once exited; opened:
\* CourseDatabase was constructed; polling: the updater polls for commands;
\* instances: the instances of the job 'scrape_and_post' the scheduler counts as
\* running; skipped: a firing of the trigger was skipped; overlap: a firing
\* started process_courses while another process_courses was running.
IdleBoot ==
  [pc |-> "main", config |-> [token |-> "set", channel |-> "set"], status |-> 0,
   opened |-> FALSE, polling |-> FALSE, instances |-> 0, skipped |-> FALSE,
   overlap |-> FALSE]

\* A course dictionary with every field None.
NoCourse ==
  [title |-> None, language |-> None, publisher |-> None, rate |-> None, enroll |-> None,
   udemy_url |-> None, coupon_link |-> None, thumbnail |-> None]

\* No post_course call is running.  tried: the sends of the call, in order, each
\* with its outcome; result: what the call returned.
IdlePost ==
  [pc |-> "idle", course |-> NoCourse, message |-> <<>>, tried |-> <<>>, result |-> FALSE]

(***************************************************************************)
(* State                                                                   *)
(***************************************************************************)

VARIABLES
  db,        \* the rows of posted_courses, in insertion order
  last,      \* the store operation called last, by a direct caller of the store
  callers,   \* two callers, each inside one mark_posted call
  resolve,   \* one get_udemy_course_info call: its position, arguments and result
  sched,     \* the scheduled pass (process_courses): its position and locals
  cmd,       \* the command handler running, if any: its position and locals
  schedPub,  \* per normalized listing URL, the publishes by scheduled passes
  extract,   \* the latest scrape_couponami call: the page it met and what it returned
  boot,      \* main() and UdemyCoursesBot.start(): the position and the scheduler's job
  post       \* one post_course call: the course, its message and the sends it made

vars == <<db, last, callers, resolve, sched, cmd, schedPub, extract, boot, post>>

\* At most this many rows are stored.
MaxRows == 2

NoCall ==
  [op |-> "none", link |-> None, udemy |-> None, title |-> None, plain |-> FALSE,
   res |-> FALSE,
   changed |-> FALSE, again |-> FALSE]

IdleCallers == [c \in {1, 2} |-> [pc |-> "out", title |-> None, link |-> None, err |-> FALSE]]

\* A mark_posted call that would add a row is made only while there is room.
HasRoom(rows, coupon_link) == Len(rows) < MaxRows \/ SelectByLink(rows, coupon_link)

(***************************************************************************)
(* The store called directly: any sequence of mark_posted and is_posted.   *)
(***************************************************************************)

StoreInit ==
  /\ db = <<>>
  /\ last = NoCall
  /\ callers = IdleCallers
  /\ sched = IdlePass
  /\ cmd = IdleCommand
  /\ schedPub = NoPublishes
  /\ resolve = IdleResolve
  /\ extract = IdleExtract
  /\ boot = IdleBoot
  /\ post = IdlePost

\* One call of mark_posted(course_title, coupon_link, udemy_url, source).
StoreMarkPosted(course_title, coupon_link, udemy_url, source) ==
  /\ HasRoom(db, coupon_link)
  /\ db' = mark_posted(db, course_title, coupon_link, udemy_url, source)
  /\ last' = [op |-> "mark_posted", link |-> coupon_link, udemy |-> udemy_url,
              title |-> course_title, plain |-> FALSE, res |-> FALSE,
              changed |-> db' # db,
              again |-> last.op = "mark_posted" /\ last.link = coupon_link]
  /\ UNCHANGED <<callers, resolve, sched, cmd, schedPub, extract, boot, post>>

\* One call of is_posted(coupon_link, udemy_url, course_title).
StoreIsPosted(coupon_link, udemy_url, course_title) ==
  /\ last' = [op |-> "is_posted", link |-> coupon_link, udemy |-> udemy_url,
              title |-> course_title,
              plain |-> udemy_url = None /\ course_title = None,
              res |-> is_posted(db, coupon_link, udemy_url, course_title),
              changed |-> FALSE, again |-> FALSE]
  /\ UNCHANGED <<db, callers, resolve, sched, cmd, schedPub, extract, boot, post>>

\* The title and destination a direct caller passes along with a listing URL.
StoreDetails == {<<T_py, U_xq>>, <<T_pyv, U_x>>, <<T_c, None>>, <<T_pyl, None>>}

StoreNext ==
  \/ \E l \in Links, d \in StoreDetails : StoreMarkPosted(d[1], l, d[2], "couponami")
  \/ \E l \in Links, u \in {None, U_xq, U_y}, t \in {None, T_pyv, T_pyl2} : StoreIsPosted(l, u, t)

SpecStore == StoreInit /\ [][StoreNext]_vars

(***************************************************************************)
(* Two callers inside mark_posted at once, each on a connection of its     *)
(* own: the SELECT and the INSERT of a call are separate steps.            *)
(***************************************************************************)

\* Stores the program can have built before the two calls start.
RaceStores ==
  {<<>>,
   mark_posted(<<>>, T_c, L_a, None, "couponami"),
   mark_posted(<<>>, T_c, L_ab, None, "couponami"),
   mark_posted(<<>>, T_c, L_d, None, "couponami")}

\* Whether an IntegrityError raised by the INSERT leaves mark_posted: the
\* handler logs a warning and the call returns.
IntegrityErrorEscapes == FALSE

RaceInit ==
  /\ db \in RaceStores
  /\ last = NoCall
  /\ \E u \in Links, t \in {T_py, T_c} :
       callers \in [{1, 2} -> {[pc |-> "select", title |-> t, link |-> v, err |-> FALSE] :
                               v \in Variants(u)}]
  /\ sched = IdlePass
  /\ cmd = IdleCommand
  /\ schedPub = NoPublishes
  /\ resolve = IdleResolve
  /\ extract = IdleExtract
  /\ boot = IdleBoot
  /\ post = IdlePost

\* The SELECT of caller c: a match ends the call.
RaceSelect(c) ==
  /\ callers[c].pc = "select"
  /\ callers' = [callers EXCEPT ![c].pc =
                   IF SelectByLink(db, callers[c].link) THEN "returned" ELSE "insert"]
  /\ UNCHANGED <<db, last, resolve, sched, cmd, schedPub, extract, boot, post>>

\* The INSERT and commit of caller c.
RaceInsert(c) ==
  /\ callers[c].pc = "insert"
  /\ LET row == NewRow(callers[c].title, callers[c].link, None, "couponami") IN
       /\ db' = Insert(db, row)
       /\ callers' = [callers EXCEPT
            ![c].pc = IF IntegrityError(db, row) /\ IntegrityErrorEscapes
                      THEN "raised" ELSE "returned",
            ![c].err = IntegrityError(db, row)]
  /\ UNCHANGED <<last, resolve, sched, cmd, schedPub, extract, boot, post>>

RaceNext == \E c \in {1, 2} : RaceSelect(c) \/ RaceInsert(c)

SpecRace == RaceInit /\ [][RaceNext]_vars

RaceOver == \A c \in {1, 2} : callers[c].pc \in {"returned", "raised"}

(***************************************************************************)
(* The scheduled pass: UdemyCoursesBot.process_courses.  The code between  *)
(* two awaits runs without interruption and is one action.                 *)
(***************************************************************************)

Min(a, b) == IF a < b THEN a ELSE b

\* is_posted answering True when it hits a storage error.
IsPostedCallFailsClosed(rows, course, error) ==
  error \/ is_posted(rows, course.coupon_link, course.udemy_url, course.title)

\* What the pass takes is_posted to have answered: a call that hit a storage error
\* answers False.
IsPostedCall(rows, course, error) ==
  ~error /\ is_posted(rows, course.coupon_link, course.udemy_url, course.title)

\* The positions of the candidates skipped as duplicates.
Skipped(rows, courses, errs) ==
  {i \in 1..Len(courses) : IsPostedCall(rows, courses[i], errs[i])}

\* new_courses as it would be with the duplicate check's continue left out.
KeptAll(rows, courses, errs) == courses

\* new_courses built back to front.
KeptReversed(rows, courses, errs) ==
  LET skipped == Skipped(rows, courses, errs)
      at == SelectSeq([i \in 1..Len(courses) |-> i], LAMBDA i : i \notin skipped)
  IN  [k \in 1..Len(at) |-> courses[at[Len(at) + 1 - k]]]

\* new_courses: the candidates is_posted does not report known, in page order.
Kept(rows, courses, errs) ==
  LET skipped == Skipped(rows, courses, errs)
      at == SelectSeq([i \in 1..Len(courses) |-> i], LAMBDA i : i \notin skipped)
  IN  [k \in 1..Len(at) |-> courses[at[k]]]

\* The candidates skipped as duplicates (counted by duplicate_count).
DroppedLinks(rows, courses, errs) ==
  {courses[i].coupon_link : i \in Skipped(rows, courses, errs)}

\* The candidates whose is_posted call hit a storage error.
ErredLinks(courses, errs) ==
  {courses[i].coupon_link : i \in {j \in 1..Len(courses) : errs[j]}}

\* The filter loop making no get_udemy_course_info call.
ResolveCallsNone(courses) == 0

\* The get_udemy_course_info calls of the filter loop: one per candidate with a
\* listing URL.
ResolveCalls(courses) ==
  Cardinality({i \in 1..Len(courses) : courses[i].coupon_link # None})

\* Where the pass stands after the filter loop, were it to sleep the pacing delay
\* before returning empty-handed.
AfterFilterSleeps(courses, new) == IF new = <<>> THEN "sleep" ELSE "await_post"

\* Where the pass stands after the filter loop: it returns when scrape_all gave
\* nothing or nothing is new, else it posts the first new candidate.
AfterFilter(courses, new) ==
  IF courses = <<>> \/ new = <<>> THEN "done" ELSE "await_post"

\* The mutant of ShouldRecord: mark_posted called whatever post_course returned.
ShouldRecordAlways(success) == TRUE

\* if success: self.db.mark_posted(...)
ShouldRecord(success) == success

\* Scheduled publishes of a listing, counted up to MaxPubCount.
CountPublish(pubs, coupon_link, success) ==
  IF success
  THEN [pubs EXCEPT ![Normalize(coupon_link)] = Min(@ + 1, MaxPubCount)]
  ELSE pubs

\* process_courses returns: its locals are gone; what it skipped, its latest post
\* and the figures of its final summary stay on record until the next pass starts.
Finished(pass, event) ==
  [IdlePass EXCEPT !.pc = "done", !.dropped = pass.dropped, !.ev = event,
                   !.werr = pass.werr, !.found = pass.found,
                   !.posted_count = pass.posted_count,
                   !.failed_count = pass.failed_count]

\* The pass after a post that succeeded, were it to go on without the delay.
AfterSuccessNoDelay(pass) ==
  IF pass.idx < Len(pass.new)
  THEN [pass EXCEPT !.pc = "await_post", !.idx = @ + 1]
  ELSE Finished(pass, pass.ev)

\* The pass after a post that succeeded: await asyncio.sleep(2).
AfterSuccess(pass) == [pass EXCEPT !.pc = "sleep"]

\* The pass after a post that failed, were the failure to end the post loop.
AfterFailureStops(pass, event) == Finished(pass, event)

\* The pass after a post that failed (post_course returned False, or raised into
\* the loop's except clause): failed_count goes up and the loop continues.
AfterFailure(pass, event) ==
  IF pass.idx < Len(pass.new)
  THEN [pass EXCEPT !.idx = @ + 1, !.ev = event]
  ELSE Finished(pass, event)

\* scrape_all, the filter loop, and the first post_course call up to its await.
\* A pass with no candidate or no new candidate returns.  errs tells which
\* is_posted calls hit a storage error.
PassStart(page, res, errs) ==
  /\ sched.pc \in {"idle", "done"}
  /\ LET courses == Resolved(page, res)
         new == Kept(db, courses, errs)
         at == AfterFilter(courses, new)
     IN sched' = [IdlePass EXCEPT
                    !.pc = at,
                    !.page = IF at = "done" THEN <<>> ELSE LinksOf(page),
                    !.new = new,
                    !.idx = IF at = "await_post" THEN 1 ELSE 0,
                    !.dropped = DroppedLinks(db, courses, errs),
                    !.erred = ErredLinks(courses, errs),
                    !.scraped = Len(courses),
                    !.resolves = ResolveCalls(courses),
                    !.found = Len(new)]

\* process_courses is called while no other call of it is running.
SchedStart(page, res, errs) ==
  /\ PassStart(page, res, errs)
  /\ UNCHANGED <<db, last, callers, resolve, cmd, schedPub, extract, boot, post>>

\* mark_posted adding its row although it hit a storage error.
MarkPostedCallCommits(rows, course, error) ==
  mark_posted(rows, course.title, course.coupon_link, course.udemy_url, "couponami")

\* The table after the pass called mark_posted for a candidate: a call that hit a
\* storage error logs it, adds nothing and returns.
MarkPostedCall(rows, course, error) ==
  IF error THEN rows
  ELSE mark_posted(rows, course.title, course.coupon_link, course.udemy_url, "couponami")

\* failed_count going up also for a posted candidate that has no udemy_url.
FailedOrUnresolved(course, success) == ~success \/ course.udemy_url = None

\* failed_count += 1: in the else branch of 'if success' and in the except clause
\* of the post loop, nowhere else.
Failed(course, success) == ~success

\* What post_course can do: return True, return False, or raise.
Outcomes == {"sent", "failed", "raised"}

\* post_course returns: on success mark_posted and the 2 s sleep, on failure the
\* next candidate's post_course call, or the end of the pass.  error tells whether
\* mark_posted hit a storage error, which it logs and swallows.
SchedPostReturns(outcome, error) ==
  /\ sched.pc = "await_post"
  /\ LET course == sched.new[sched.idx]
         success == outcome = "sent"
     IN /\ db' = IF ShouldRecord(success) THEN MarkPostedCall(db, course, error) ELSE db
        /\ schedPub' = CountPublish(schedPub, course.coupon_link, success)
        /\ sched' = IF success
                    THEN AfterSuccess(
                           [sched EXCEPT !.pubs = @ \cup {course.coupon_link},
                                         !.ev = PostEvent(course, TRUE, ShouldRecord(TRUE)),
                                         !.werr = error,
                                         !.posted_count = @ + 1,
                                         !.failed_count =
                                            IF Failed(course, TRUE) THEN @ + 1 ELSE @])
                    ELSE AfterFailure([sched EXCEPT !.failed_count =
                                                       IF Failed(course, FALSE)
                                                       THEN @ + 1 ELSE @,
                                                    !.werr = ShouldRecord(FALSE) /\ error],
                                      PostEvent(course, FALSE, ShouldRecord(FALSE)))
  /\ UNCHANGED <<last, callers, resolve, cmd, extract, boot, post>>

\* The sleep ends: the next candidate's post_course call, or the end of the pass.
SchedWake ==
  /\ sched.pc = "sleep"
  /\ sched' = IF sched.idx < Len(sched.new)
              THEN [sched EXCEPT !.pc = "await_post", !.idx = @ + 1]
              ELSE Finished(sched, sched.ev)
  /\ UNCHANGED <<db, last, callers, resolve, cmd, schedPub, extract, boot, post>>

\* No is_posted call of the page hits a storage error.
NoErrors(page) == [i \in 1..Len(page) |-> FALSE]

SchedNextOn(pages) ==
  \/ /\ sched.pc \in {"idle", "done"}
     /\ \E page \in pages : \E res \in PageResolutions(page) :
          SchedStart(page, res, NoErrors(page))
  \/ \E outcome \in Outcomes : SchedPostReturns(outcome, FALSE)
  \/ SchedWake

SchedNext == SchedNextOn(Pages)

PipeInit ==
  /\ db = <<>>
  /\ last = NoCall
  /\ callers = IdleCallers
  /\ sched = IdlePass
  /\ cmd = IdleCommand
  /\ schedPub = NoPublishes
  /\ resolve = IdleResolve
  /\ extract = IdleExtract
  /\ boot = IdleBoot
  /\ post = IdlePost

\* Scheduled passes only, one after the other.
SpecSched == PipeInit /\ [][SchedNext]_vars

\* Scheduled passes over a store whose reads and writes can fail.
FaultNext ==
  \/ /\ sched.pc \in {"idle", "done"}
     /\ \E page \in SharedPages : \E res \in PageResolutions(page) :
          \E errs \in [1..Len(page) -> BOOLEAN] : SchedStart(page, res, errs)
  \/ \E outcome \in Outcomes, error \in BOOLEAN : SchedPostReturns(outcome, error)
  \/ SchedWake

SpecFault == PipeInit /\ [][FaultNext]_vars

(***************************************************************************)
(* main() and UdemyCoursesBot.start(): the configuration check, the        *)
(* construction of the bot, the startup pass, and the interval job of the  *)
(* AsyncIOScheduler.  add_job is called without max_instances, so the      *)
(* scheduler runs one instance of the job at a time and skips a firing     *)
(* that finds an instance running.                                         *)
(***************************************************************************)

\* The instances of one job the scheduler lets run at a time.
MaxInstances == 1

\* The configuration check looking at the token alone.
ConfigErrorTokenOnly(config) == config.token = "placeholder"

\* main(): the token or the channel identity is still the placeholder.
ConfigError(config) == config.token = "placeholder" \/ config.channel = "placeholder"

\* The scheduler submitting the job whatever the number of running instances.
InstanceFreeAlways(instances) == TRUE

\* The scheduler submits the job only below max_instances.
InstanceFree(instances) == instances < MaxInstances

\* main() up to bot.start(): sys.exit(1) on a placeholder, else UdemyCoursesBot()
\* opens the store and start() awaits the application's initialize.
Main(config) ==
  /\ boot.pc = "main"
  /\ boot' = IF ConfigError(config)
             THEN [boot EXCEPT !.pc = "exited", !.config = config, !.status = 1]
             ELSE [boot EXCEPT !.pc = "initialize", !.config = config, !.opened = TRUE]
  /\ UNCHANGED <<db, last, callers, resolve, sched, cmd, schedPub, extract, post>>

\* initialize, start and start_polling return, or one of them raises and the
\* exception leaves main(): sys.exit(1) in the module's except clause.
StartPolling(raises) ==
  /\ boot.pc = "initialize"
  /\ boot' = IF raises
             THEN [boot EXCEPT !.pc = "exited", !.status = 1]
             ELSE [boot EXCEPT !.pc = "test_connection", !.polling = TRUE]
  /\ UNCHANGED <<db, last, callers, resolve, sched, cmd, schedPub, extract, post>>

\* test_connection returns: sys.exit(1) on False, else process_courses is called.
TestConnection(connected) ==
  /\ boot.pc = "test_connection"
  /\ boot' = IF connected
             THEN [boot EXCEPT !.pc = "first_pass"]
             ELSE [boot EXCEPT !.pc = "exited", !.status = 1]
  /\ UNCHANGED <<db, last, callers, resolve, sched, cmd, schedPub, extract, post>>

\* await self.process_courses(): the startup pass begins.
FirstPass(page, res) ==
  /\ boot.pc = "first_pass" /\ sched.pc = "idle"
  /\ SchedStart(page, res, NoErrors(page))

\* The startup pass has returned: add_job and scheduler.start().
Schedule ==
  /\ boot.pc = "first_pass" /\ sched.pc = "done"
  /\ boot' = [boot EXCEPT !.pc = "serving"]
  /\ UNCHANGED <<db, last, callers, resolve, sched, cmd, schedPub, extract, post>>

\* The interval trigger fires: the scheduler skips the firing when the job has
\* max_instances instances running, else it counts one more instance and
\* process_courses starts.
IntervalFires(page, res) ==
  /\ boot.pc = "serving"
  /\ IF ~InstanceFree(boot.instances)
     THEN /\ boot' = [boot EXCEPT !.skipped = TRUE]
          /\ UNCHANGED sched
     ELSE IF sched.pc \in {"await_post", "sleep"}
     THEN /\ boot' = [boot EXCEPT !.instances = Min(@ + 1, MaxInstances + 1),
                                  !.overlap = TRUE]
          /\ UNCHANGED sched
     ELSE /\ boot' = [boot EXCEPT !.instances = @ + 1]
          /\ PassStart(page, res, NoErrors(page))
  /\ UNCHANGED <<db, last, callers, resolve, cmd, schedPub, extract, post>>

\* The job's coroutine has returned and the scheduler releases its instance.
JobDone ==
  /\ boot.pc = "serving" /\ boot.instances > 0 /\ sched.pc = "done"
  /\ boot' = [boot EXCEPT !.instances = @ - 1]
  /\ UNCHANGED <<db, last, callers, resolve, sched, cmd, schedPub, extract, post>>

BootNext ==
  \/ \E config \in Configs : Main(config)
  \/ \E raises \in BOOLEAN : StartPolling(raises)
  \/ \E connected \in BOOLEAN : TestConnection(connected)
  \/ \E page \in SharedPages : \E res \in PageResolutions(page) : FirstPass(page, res)
  \/ Schedule
  \/ /\ boot.pc = "serving"
     /\ \E page \in SharedPages : \E res \in PageResolutions(page) :
          IntervalFires(page, res)
  \/ JobDone
  \/ \E outcome \in Outcomes : SchedPostReturns(outcome, FALSE)
  \/ SchedWake

\* The process from main() on: startup, then the passes the scheduler starts.
SpecBoot == PipeInit /\ [][BootNext]_vars

(***************************************************************************)
(* The operator commands /test and /test_scrape.  The application handles  *)
(* one update at a time, so at most one handler runs; it runs in the event *)
(* loop of the scheduled pass and the two interleave at their awaits.      *)
(***************************************************************************)

DefaultNumCourses == 10
MinNumCourses == 1
MaxNumCourses == 50

\* context.args[0] of /test: absent, not an integer, or an integer.
TestArgs ==
  {NoArg, [given |-> TRUE, int |-> FALSE, val |-> 0]}
  \cup {[given |-> TRUE, int |-> TRUE, val |-> v] : v \in {0, 1, 51}}

\* num_courses with the upper clamp left out.
NumCoursesUnclamped(arg) ==
  IF ~arg.given \/ ~arg.int THEN DefaultNumCourses
  ELSE IF arg.val < MinNumCourses THEN MinNumCourses
  ELSE arg.val

\* num_courses of handle_test_command.
NumCourses(arg) ==
  IF ~arg.given \/ ~arg.int THEN DefaultNumCourses
  ELSE IF arg.val < MinNumCourses THEN MinNumCourses
  ELSE IF arg.val > MaxNumCourses THEN MaxNumCourses
  ELSE arg.val

\* /test calling mark_posted after every successful post.
TestShouldRecordAlways(rows, coupon_link, success) == success

\* /test: if coupon_link and not self.db.is_posted(coupon_link), after a
\* successful post.
TestShouldRecord(rows, coupon_link, success) ==
  success /\ coupon_link # <<>> /\ ~is_posted(rows, coupon_link, None, None)

\* The handler returns: its locals are gone; its latest post stays on record
\* until the next command arrives.
Returned(handler, event) ==
  [IdleCommand EXCEPT !.pc = "done", !.kind = handler.kind, !.fresh = handler.fresh,
                      !.ev = event, !.arg = handler.arg, !.num = handler.num,
                      !.scraped = handler.scraped]

\* A command arrives; the handler awaits update.message.delete().
CmdArrive(kind) ==
  /\ cmd.pc \in {"idle", "done"}
  /\ cmd' = [IdleCommand EXCEPT !.pc = "delete", !.kind = kind]
  /\ UNCHANGED <<db, last, callers, resolve, sched, schedPub, extract, boot, post>>

\* /test after the delete: num_courses, scrape_all, courses[:num_courses], the
\* first candidate's resolver call and post_course call up to its await.
TestScrape(arg, page, udemy_url) ==
  /\ cmd.pc = "delete" /\ cmd.kind = "test"
  /\ LET todo == SubSeq(Resolved(page, [i \in 1..Len(page) |-> None]), 1,
                        Min(NumCourses(arg), Len(page)))
         called == [cmd EXCEPT !.arg = arg, !.num = NumCourses(arg),
                               !.scraped = Len(page)]
         posting == [called EXCEPT !.page = LinksOf(page)]
     IN cmd' = IF todo = <<>>
               THEN Returned(called, cmd.ev)
               ELSE [posting EXCEPT !.pc = "await_post", !.idx = 1,
                                   !.todo = [todo EXCEPT ![1].udemy_url = udemy_url]]
  /\ UNCHANGED <<db, last, callers, resolve, sched, schedPub, extract, boot, post>>

\* /test: post_course returns; mark_posted on success if the link is not known;
\* then the 2 s sleep unless this was the last candidate.
TestPostReturns(success) ==
  /\ cmd.pc = "await_post" /\ cmd.kind = "test"
  /\ LET course == cmd.todo[cmd.idx]
         rec == TestShouldRecord(db, course.coupon_link, success)
     IN /\ db' = IF rec
                 THEN mark_posted(db, course.title, course.coupon_link, course.udemy_url,
                                  "couponami")
                 ELSE db
        /\ cmd' = IF cmd.idx < Len(cmd.todo)
                  THEN [cmd EXCEPT !.pc = "sleep", !.ev = PostEvent(course, success, rec)]
                  ELSE Returned(cmd, PostEvent(course, success, rec))
  /\ UNCHANGED <<last, callers, resolve, sched, schedPub, extract, boot, post>>

\* /test: the sleep ends; the next candidate's resolver call and post_course call.
TestWake(udemy_url) ==
  /\ cmd.pc = "sleep" /\ cmd.kind = "test"
  /\ cmd' = [cmd EXCEPT !.pc = "await_post", !.idx = @ + 1,
                        !.todo[cmd.idx + 1].udemy_url = udemy_url]
  /\ UNCHANGED <<db, last, callers, resolve, sched, schedPub, extract, boot, post>>

\* /test_scrape after the delete: the handler awaits the status message.
ScrapeStatus ==
  /\ cmd.pc = "delete" /\ cmd.kind = "test_scrape"
  /\ cmd' = [cmd EXCEPT !.pc = "status"]
  /\ UNCHANGED <<db, last, callers, resolve, sched, schedPub, extract, boot, post>>

\* The courses of /test_scrape with the known ones dropped.
TestCoursesUnknownOnly(rows, courses) ==
  SelectSeq(courses, LAMBDA c : ~is_posted(rows, c.coupon_link, None, None))

\* The courses /test_scrape takes its first from: all that scrape_all returned;
\* the store is not asked.
TestCourses(rows, courses) == courses

\* /test_scrape: scrape_all; with no course the handler edits the status message
\* and returns; else courses[0], its resolver call, and the await on the edit of
\* the status message.
ScrapeScrape(page, udemy_url) ==
  /\ cmd.pc = "status" /\ cmd.kind = "test_scrape"
  /\ LET courses == TestCourses(db, page)
         scraped == [cmd EXCEPT !.page = LinksOf(page)]
     IN  cmd' = IF courses = <<>>
                THEN [scraped EXCEPT !.pc = "final"]
                ELSE [scraped EXCEPT !.pc = "edit", !.idx = 1,
                                     !.todo = <<WithUdemy(Head(courses), udemy_url)>>,
                                     !.fresh = RowsFor(db, Head(courses).coupon_link) = 0]
  /\ UNCHANGED <<db, last, callers, resolve, sched, schedPub, extract, boot, post>>

\* /test_scrape: the edit is done; post_course is called and awaited.  The list
\* scrape_all returned is not read again.
ScrapePost ==
  /\ cmd.pc = "edit" /\ cmd.kind = "test_scrape"
  /\ cmd' = [cmd EXCEPT !.pc = "await_post", !.page = <<>>]
  /\ UNCHANGED <<db, last, callers, resolve, sched, schedPub, extract, boot, post>>

\* /test_scrape: post_course returns; mark_posted on success; the handler awaits
\* the last edit of the status message.
ScrapePostReturns(success) ==
  /\ cmd.pc = "await_post" /\ cmd.kind = "test_scrape"
  /\ LET course == cmd.todo[1] IN
       /\ db' = IF ShouldRecord(success)
                THEN mark_posted(db, course.title, course.coupon_link, course.udemy_url,
                                 "couponami")
                ELSE db
       /\ cmd' = [cmd EXCEPT !.ev = PostEvent(course, success, ShouldRecord(success)),
                             !.pc = "final"]
  /\ UNCHANGED <<last, callers, resolve, sched, schedPub, extract, boot, post>>

\* /test_scrape: the last edit is done and the handler returns.
ScrapeDone ==
  /\ cmd.pc = "final" /\ cmd.kind = "test_scrape"
  /\ cmd' = Returned(cmd, cmd.ev)
  /\ UNCHANGED <<db, last, callers, resolve, sched, schedPub, extract, boot, post>>

\* The arguments /test is given while a scheduled pass shares the loop.
SharedArgs == {NoArg, [given |-> TRUE, int |-> TRUE, val |-> 1]}

CmdNextOn(args) ==
  \/ \E kind \in {"test", "test_scrape"} : CmdArrive(kind)
  \/ \E arg \in args, page \in SharedPages :
       \E u \in (IF page = <<>> THEN {None} ELSE Resolutions(page[1].coupon_link)) :
         TestScrape(arg, page, u)
  \/ \E success \in BOOLEAN : TestPostReturns(success)
  \/ \E u \in Udemys :
       /\ cmd.pc = "sleep"
       /\ u \in Resolutions(cmd.todo[cmd.idx + 1].coupon_link)
       /\ TestWake(u)
  \/ ScrapeStatus
  \/ \E page \in SharedPages :
       \E u \in (IF page = <<>> THEN {None} ELSE Resolutions(page[1].coupon_link)) :
         ScrapeScrape(page, u)
  \/ ScrapePost
  \/ \E success \in BOOLEAN : ScrapePostReturns(success)
  \/ ScrapeDone

Next == SchedNextOn(SharedPages) \/ CmdNextOn(SharedArgs)

\* The scheduled pass and the command handlers in one event loop.
Spec == PipeInit /\ [][Next]_vars

CmdNext == CmdNextOn(TestArgs)

\* The command handlers alone, one command after the other.
SpecCmd == PipeInit /\ [][CmdNext]_vars

(***************************************************************************)
(* One call of get_udemy_course_info, request by request.  The recursive   *)
(* call is the last thing its caller does, so the call in progress is all  *)
(* the state there is.                                                     *)
(***************************************************************************)

\* The head of get_udemy_course_info: the depth guard and the argument check come
\* before any request.
Enter(call, coupon_link, recursion_depth) ==
  IF DepthExceeded(recursion_depth) \/ coupon_link = None
  THEN [call EXCEPT !.pc = "done", !.link = coupon_link, !.depth = recursion_depth,
                    !.out = None]
  ELSE [call EXCEPT !.pc = "get", !.link = coupon_link, !.depth = recursion_depth]

\* A caller enters get_udemy_course_info(coupon_link, recursion_depth).
ResolveCall(coupon_link, recursion_depth) ==
  /\ resolve.pc = "idle"
  /\ resolve' = Enter([IdleResolve EXCEPT !.entered = recursion_depth],
                      coupon_link, recursion_depth)
  /\ UNCHANGED <<db, last, callers, sched, cmd, schedPub, extract, boot, post>>

\* session.get returns or raises, and the call runs to its return or to the head
\* of the recursive call.  A link without a scheme makes session.get raise.
ResolveGet(response) ==
  /\ resolve.pc = "get"
  /\ ~StartsWithHttp(resolve.link) => response.raise
  /\ LET got == [resolve EXCEPT !.requests = @ + 1, !.page = response]
         go_link == First(SelectSeq(response.hrefs, HasGo))
     IN  resolve' =
           IF response.raise THEN [got EXCEPT !.pc = "done", !.out = None]
           ELSE IF HasGo(resolve.link)
             THEN [got EXCEPT !.pc = "done", !.out = FromGoPage(response)]
           ELSE IF go_link # None
             THEN Enter(got, AbsoluteGo(go_link), resolve.depth + 1)
           ELSE [got EXCEPT !.pc = "done", !.out = FromCoursePage(response)]
  /\ UNCHANGED <<db, last, callers, sched, cmd, schedPub, extract, boot, post>>

\* The caller takes the result.
ResolveReturn ==
  /\ resolve.pc = "done"
  /\ resolve' = IdleResolve
  /\ UNCHANGED <<db, last, callers, sched, cmd, schedPub, extract, boot, post>>

ResolveNext ==
  \/ \E l \in {None, L_a, L_d, H_rel}, d \in 0..MaxDepthArg : ResolveCall(l, d)
  \/ resolve.pc = "get" /\ \E r \in Responses(resolve.link) : ResolveGet(r)
  \/ ResolveReturn

SpecResolve == StoreInit /\ [][ResolveNext]_vars

(***************************************************************************)
(* scrape_couponami called on its own.                                     *)
(***************************************************************************)

\* One call: the fetch succeeds or raises, the parse succeeds or raises.
ScrapeCall(status, page) ==
  /\ extract.pc = "idle"
  /\ extract' = [pc |-> "returned", status |-> status, page |-> page,
                 courses |-> scrape_couponami(status, page)]
  /\ UNCHANGED <<db, last, callers, resolve, sched, cmd, schedPub, boot, post>>

\* The caller takes the list.
ScrapeReturn ==
  /\ extract.pc = "returned"
  /\ extract' = IdleExtract
  /\ UNCHANGED <<db, last, callers, resolve, sched, cmd, schedPub, boot, post>>

ExtractNext ==
  \/ /\ extract.pc = "idle"
     /\ \E status \in {"ok", "fetch_error", "parse_error"}, page \in Markups :
          ScrapeCall(status, page)
  \/ ScrapeReturn

SpecExtract == StoreInit /\ [][ExtractNext]_vars

(***************************************************************************)
(* Properties of the store                                                 *)
(***************************************************************************)

\* C6: after one mark_posted with listing URL u, is_posted(v) with no destination
\* and no title is true for every v that differs from u only by query string or
\* fragment.
C6_VariantsKnownAfterRecord ==
  last.op = "mark_posted" =>
    \A v \in Variants(last.link) : is_posted(db, v, None, None)

\* A row was stored for a link given with a query string, and the link has other
\* variants.
C6_Witness ==
  /\ last.op = "mark_posted" /\ last.link = L_aq /\ last.changed
  /\ {L_a, L_af} \subseteq Variants(last.link)

\* C8: after mark_posted was called twice in a row with the same listing URL, exactly
\* one row is stored for that URL and the second call changed nothing.
C8_RecordTwiceExactlyOneRow ==
  (last.op = "mark_posted" /\ last.again) =>
    (~last.changed /\ RowsFor(db, last.link) = 1)

\* C9: no two stored rows have the same normalized listing URL.
C9_UniqueNormalizedLink ==
  \A i, j \in 1..Len(db) :
    i # j => Normalize(db[i].coupon_link) # Normalize(db[j].coupon_link)

\* Two rows are stored and a further variant of a stored link was just refused.
C9_Witness ==
  /\ Len(db) = 2
  /\ last.op = "mark_posted" /\ ~last.changed
  /\ \E i \in 1..Len(db) : db[i].coupon_link # last.link
                           /\ db[i].coupon_link = Normalize(last.link)

\* C29: is_posted called with a destination that has a /course/<slug> segment
\* answers True when the destination of some stored row contains that slug, also
\* when no row matches the listing URL and no title is given.
C29_SlugKnown ==
  (/\ last.op = "is_posted" /\ last.udemy # None
   /\ CourseSlug(Normalize(last.udemy)) # None
   /\ \E i \in 1..Len(db) :
        Contains(CourseSlug(Normalize(last.udemy)), db[i].udemy_url)) => last.res

\* is_posted was asked with a listing URL no row matches, no title, and the
\* destination /course/x?k, and a row stored under another listing URL has the
\* destination /course/x.
C29_Witness ==
  /\ last.op = "is_posted" /\ last.udemy = U_xq /\ last.title = None
  /\ ~SelectByLink(db, last.link)
  /\ \E i \in 1..Len(db) : db[i].udemy_url = U_x
  /\ last.res

\* C30: a mark_posted call adds a row exactly when no stored row has the
\* normalized listing URL of the call; a listing URL that is a strict prefix of
\* another stored listing URL is still recorded.
C30_RecordUnlessSameListing ==
  [][last'.op = "mark_posted" => (db' # db <=> RowsFor(db, last'.link) = 0)]_vars

\* C10: when both concurrent mark_posted calls for one normalized listing URL are
\* over, exactly one row is stored for it and neither call raised.
C10_RaceExactlyOneRow ==
  RaceOver =>
    /\ RowsFor(db, callers[1].link) = 1
    /\ \A c \in {1, 2} : callers[c].pc = "returned"

\* A title lower-cased and stripped of every character that is not a letter or a
\* digit.
AlnumTitle(title) ==
  SelectSeq(LowerStr(title), LAMBDA c : c \in WordChars \ {"_"})

\* One title, so reduced, is a substring of the other, and the longer one has more
\* than ContainTitleLen characters.
TitlesOverlap(t1, t2) ==
  LET a == AlnumTitle(t1)
      b == AlnumTitle(t2)
  IN  \/ Contains(a, b) /\ Len(b) > ContainTitleLen
      \/ Contains(b, a) /\ Len(a) > ContainTitleLen

C12_ResolveBounded ==
  /\ [](resolve.pc = "get" => resolve.depth <= MaxRecursionDepth)
  /\ [](resolve.requests <= MaxRecursionDepth + 1)
  /\ []((resolve.pc = "done" /\ resolve.entered > MaxRecursionDepth) =>
          (resolve.out = None /\ resolve.requests = 0))
  /\ [][resolve.pc = "get" =>
          \/ resolve'.pc = "done"
          \/ resolve'.pc = "get" /\ resolve'.depth = resolve.depth + 1]_vars

\* A call entered at depth 3 on a course page followed the page's /go/ link into a
\* recursive call at depth 4, which returned no destination without a request.
C12_Witness ==
  /\ resolve.pc = "done" /\ resolve.entered = MaxRecursionDepth
  /\ resolve.depth = MaxRecursionDepth + 1
  /\ resolve.requests = 1 /\ resolve.out = None
  /\ First(SelectSeq(resolve.page.hrefs, HasGo)) # None

\* The hrefs of a page that lead to Udemy, with and without a coupon code.
CouponHrefs(page) ==
  {page.hrefs[i] : i \in {j \in 1..Len(page.hrefs) :
                            HasUdemy(page.hrefs[j]) /\ HasCoupon(page.hrefs[j])}}
PlainHrefs(page) ==
  {page.hrefs[i] : i \in {j \in 1..Len(page.hrefs) :
                            HasUdemy(page.hrefs[j]) /\ ~HasCoupon(page.hrefs[j])}}

\* C13: when the landing page of a /go/ link holds a Udemy link with a coupon code
\* and a Udemy link without one, in either order, get_udemy_course_info returns
\* the link with the coupon code.
C13_CouponLinkReturned ==
  (/\ resolve.pc = "done" /\ HasGo(resolve.link)
   /\ ~resolve.page.raise /\ ~HasUdemy(resolve.page.url)
   /\ CouponHrefs(resolve.page) # {} /\ PlainHrefs(resolve.page) # {})
    => resolve.out \in CouponHrefs(resolve.page)

(***************************************************************************)
(* Properties of the extractor                                             *)
(***************************************************************************)

\* The page as it is when parsing no link raises.
Unfailed(page) == [i \in 1..Len(page) |-> [page[i] EXCEPT !.fails = "no"]]

\* The links of the page a candidate can come from.
LinksBehind(page, c) ==
  {i \in 1..Len(page) : CourseUrl(page[i].href) = c.coupon_link /\ TitleOf(page[i]) = c.title}

CoursesOf(courses) == {courses[i] : i \in 1..Len(courses)}

\* C16: scrape_couponami returns a list whatever happens: an empty one when the
\* fetch or the parse raises; and when parsing single links raises, no candidate
\* comes from such a link and every candidate the other links would yield had no
\* link raised is still returned.
C16_ExtractFailuresContained ==
  extract.pc = "returned" =>
    /\ extract.status # "ok" => extract.courses = <<>>
    /\ extract.status = "ok" =>
         /\ \A c \in CoursesOf(extract.courses) :
              \E i \in LinksBehind(extract.page, c) : extract.page[i].fails = "no"
         /\ \A c \in CoursesOf(scrape_couponami("ok", Unfailed(extract.page))) :
              (\A i \in LinksBehind(extract.page, c) : extract.page[i].fails = "no")
                => c \in CoursesOf(extract.courses)

\* Parsing the first of two links raised after its URL was noted, and the second
\* link's candidate was returned.
C16_Witness ==
  /\ extract.pc = "returned" /\ extract.status = "ok"
  /\ Len(extract.page) = 2 /\ extract.page[1].fails = "late"
  /\ extract.page[1].href = A_txt.href
  /\ extract.page[2].fails = "no"
  /\ extract.courses = <<[title |-> T_c, coupon_link |-> L_d]>>

\* C19: every candidate scrape_couponami returns has a title of at least 5
\* characters.
C19_TitlesAtLeastFive ==
  extract.pc = "returned" =>
    \A i \in 1..Len(extract.courses) : TextLen(extract.courses[i].title) >= MinTitle

\* A link whose own text, heading and grandparent heading are all too short was
\* discarded, and the link after it was returned with its grandparent's heading.
C19_Witness ==
  /\ extract.pc = "returned" /\ extract.status = "ok"
  /\ Len(extract.page) = 2
  /\ extract.page[1] = Parsed(A_hshort, "no")
  /\ extract.page[2] = Parsed(A_gp, "no")
  /\ extract.courses = <<[title |-> X_intro, coupon_link |-> <<SITE, CATEGORY, "b">>]>>

C1_PublishedAtMostOnce == \A n \in NormLinks : schedPub[n] <= 1

\* An earlier pass published and recorded L_a; the running pass skipped its query
\* variant L_aq.
C1_Witness ==
  /\ schedPub[L_a] = 1
  /\ RowsFor(db, L_a) = 1
  /\ L_aq \in sched.dropped

\* C2: the scheduled pass and /test_scrape never both publish a listing that
\* neither found recorded when it scraped the page.
C2_NoDoublePublish ==
  ~ /\ cmd.kind = "test_scrape" /\ cmd.fresh /\ cmd.ev.ok
    /\ \E l \in sched.pubs : Normalize(l) = Normalize(cmd.ev.link)

\* A pass is active from its scrape to its last mark_posted.
SchedActive == sched.pc \in {"await_post", "sleep"}
CmdActive == cmd.pc \in {"edit", "await_post", "sleep"}

\* C3: at most one pass, scheduled or on demand, is active at any time.
C3_OnePassAtATime == ~(SchedActive /\ CmdActive)

\* Two candidates of one page that the duplicate rules take for one listing:
\* different listing URLs, and the same /course/ slug or the same normalized title.
SameLogicalListing(a, b) ==
  /\ a.coupon_link # b.coupon_link
  /\ \/ /\ CourseSlug(Normalize(a.udemy_url)) # None
        /\ CourseSlug(Normalize(a.udemy_url)) = CourseSlug(Normalize(b.udemy_url))
     \/ NormTitle(a.title) = NormTitle(b.title)

\* C4: a scheduled pass never publishes two candidates that are one logical listing.
C4_OneDeliveryPerLogicalListing ==
  \A i, j \in 1..Len(sched.new) :
    (sched.new[i].coupon_link \in sched.pubs /\ sched.new[j].coupon_link \in sched.pubs)
      => ~SameLogicalListing(sched.new[i], sched.new[j])

\* C5: in the scheduled pass and in both commands, mark_posted is called only right
\* after post_course returned success, and for the candidate just posted.
C5_RecordOnlyAfterOwnPublish ==
  \A e \in {sched.ev, cmd.ev} : e.rec # None => (e.ok /\ e.rec = e.link)

\* The scheduled pass recorded its second candidate right after posting it, and a
\* /test run recorded the candidate it had just posted.
C5_Witness ==
  /\ sched.idx = 2 /\ sched.ev.ok /\ sched.ev.rec = sched.new[2].coupon_link
  /\ cmd.kind = "test" /\ cmd.ev.ok /\ cmd.ev.rec = cmd.ev.link /\ cmd.ev.link # None

\* C7: a candidate the scheduled pass skipped as known is not among the candidates
\* to post, is never posted and is never handed to mark_posted.
C7_KnownCandidateDropped ==
  \A l \in sched.dropped :
    /\ \A i \in 1..Len(sched.new) : sched.new[i].coupon_link # l
    /\ l \notin sched.pubs
    /\ sched.ev.link # l /\ sched.ev.rec # l

\* The pass skipped L_aq, a query variant of the stored L_a, and went on to post
\* and record L_ab; the row for L_a is the only one L_aq could belong to.
C7_Witness ==
  /\ sched.dropped = {L_aq}
  /\ sched.pubs = {L_ab} /\ sched.ev.rec = L_ab
  /\ RowsFor(db, L_aq) = 1

\* C14: a scheduled pass for which scrape_all returns nothing (the fetch failed or
\* the page held no candidate) returns at once: no get_udemy_course_info call, no
\* post, no mark_posted, no sleep, the store and the publish counts untouched.
C14_EmptyPassNoEffects ==
  [][(sched.pc \in {"idle", "done"} /\ sched'.scraped = 0) =>
       /\ sched'.pc = "done"
       /\ sched'.resolves = 0
       /\ sched'.pubs = {} /\ sched'.ev = NoEvent
       /\ sched'.posted_count = 0 /\ sched'.failed_count = 0
       /\ db' = db /\ schedPub' = schedPub]_vars

\* After a pass that posted and recorded, a pass scraped nothing and returned.
C14_Witness ==
  /\ sched.pc = "done" /\ sched.scraped = 0 /\ sched.ev = NoEvent /\ sched.found = 0
  /\ Len(db) > 0

\* A pass that is posting returns only after its last new candidate.
EndsAfterLastCandidate ==
  (sched.pc \in {"await_post", "sleep"} /\ sched'.pc = "done") => sched.idx = Len(sched.new)

\* C15: a post that fails is counted in failed_count and does not end the pass: the
\* pass returns only after post_course was called for every new candidate, each
\* counted as posted or as failed.
C15_FailureDoesNotStopPass ==
  /\ [](sched.pc \in {"await_post", "sleep"} =>
          sched.posted_count + sched.failed_count =
            IF sched.pc = "sleep" THEN sched.idx ELSE sched.idx - 1)
  /\ [](sched.pc = "done" => sched.posted_count + sched.failed_count = sched.found)
  /\ [][EndsAfterLastCandidate]_vars

\* The first post of a pass failed and the second candidate was posted and recorded.
C15_Witness ==
  /\ sched.pc = "done" /\ sched.found = 2
  /\ sched.failed_count = 1 /\ sched.posted_count = 1
  /\ sched.ev.ok /\ sched.ev.rec # None

\* C17: an is_posted call that hits a storage error answers False: the candidate is
\* not skipped, it is among the candidates the pass posts, and the pass goes on to
\* its last new candidate.
C17_ReadErrorFailsOpen ==
  /\ [](\A l \in sched.erred :
          /\ l \notin sched.dropped
          /\ sched.pc \in {"await_post", "sleep"}
          /\ \E i \in 1..Len(sched.new) : sched.new[i].coupon_link = l)
  /\ [][EndsAfterLastCandidate]_vars

\* The store holds a row for L_a; the is_posted call for L_a hit a storage error
\* and the pass posted L_a again.
C17_Witness ==
  /\ RowsFor(db, L_a) = 1
  /\ sched.erred = {L_a} /\ L_a \in sched.pubs
  /\ schedPub[L_a] = 2

\* C18: a mark_posted call that hits a storage error adds no row and raises
\* nothing: the post is counted in posted_count, the pass sleeps and goes on to
\* its next candidate.
C18_WriteErrorDoesNotBlock ==
  [][/\ (sched.pc = "await_post" /\ sched' # sched /\ sched'.ev.ok /\ sched'.werr) =>
          /\ db' = db
          /\ sched'.posted_count = sched.posted_count + 1
          /\ sched'.ev.rec = sched'.ev.link /\ sched'.ev.link \in sched'.pubs
          /\ sched'.pc = "sleep"
     /\ EndsAfterLastCandidate]_vars

\* The mark_posted call for the first of two new candidates hit a storage error; no
\* row was added and the pass is posting the second.
C18_Witness ==
  /\ sched.pc = "await_post" /\ sched.idx = 2 /\ sched.werr
  /\ sched.posted_count = 1 /\ sched.ev.ok
  /\ RowsFor(db, sched.ev.link) = 0

(***************************************************************************)
(* Properties of the operator commands                                     *)
(***************************************************************************)

\* C21: /test uses N = 10 when it is given no argument or one that is not an
\* integer, else the integer clamped to 1..50; it takes at most N candidates and
\* calls post_course at most N times, and never more than 50 times.
C21_RunNClamped ==
  (cmd.kind = "test" /\ cmd.pc # "delete") =>
    /\ (~cmd.arg.given \/ ~cmd.arg.int) => cmd.num = 10
    /\ (cmd.arg.given /\ cmd.arg.int) =>
         /\ cmd.arg.val < 1 => cmd.num = 1
         /\ cmd.arg.val > 50 => cmd.num = 50
         /\ cmd.arg.val \in 1..50 => cmd.num = cmd.arg.val
    /\ Len(cmd.todo) <= cmd.num /\ cmd.idx <= cmd.num
    /\ cmd.idx <= 50

\* /test 0 on a page of two candidates posted one candidate and returned.
C21_Witness ==
  /\ cmd.kind = "test" /\ cmd.pc = "done"
  /\ cmd.arg.given /\ cmd.arg.int /\ cmd.arg.val = 0
  /\ cmd.scraped = 2 /\ cmd.ev.ok

\* C22: /test posts each of the first N candidates whatever the store holds; after
\* a post it calls mark_posted exactly when the post succeeded and is_posted, asked
\* with the listing URL alone, answers False; the listing has at most one row
\* afterwards.
C22_TestPostsAllRecordsUnknown ==
  /\ [](cmd.kind = "test" /\ cmd.pc \in {"await_post", "sleep"} =>
          Len(cmd.todo) = Min(cmd.num, cmd.scraped))
  /\ [][(cmd.kind = "test" /\ cmd.pc = "await_post" /\ cmd' # cmd) =>
          LET course == cmd.todo[cmd.idx] IN
            /\ cmd'.ev.link = course.coupon_link
            /\ cmd'.ev.rec # None <=>
                 (cmd'.ev.ok /\ ~is_posted(db, course.coupon_link, None, None))
            /\ cmd'.ev.rec = None => db' = db
            /\ RowsFor(db', course.coupon_link) <= 1
            /\ cmd'.pc = IF cmd.idx < Len(cmd.todo) THEN "sleep" ELSE "done"]_vars
  /\ [][(cmd.kind = "test" /\ cmd.pc = "sleep" /\ cmd' # cmd) =>
          (cmd'.pc = "await_post" /\ cmd'.idx = cmd.idx + 1)]_vars

\* /test posted a listing the store already held and did not call mark_posted for
\* it.
C22_Witness ==
  /\ cmd.kind = "test" /\ cmd.ev.ok /\ cmd.ev.rec = None
  /\ RowsFor(db, cmd.ev.link) = 1

(***************************************************************************)
(* Properties of startup and of the interval trigger                       *)
(***************************************************************************)

\* C23: with the token or the channel identity left at the placeholder, the
\* process exits with a nonzero status and has opened no store, started no
\* polling, fetched nothing, published nothing and run no pass.
C23_PlaceholderExitsFirst ==
  (boot.pc # "main" /\ "placeholder" \in {boot.config.token, boot.config.channel}) =>
    /\ boot.pc = "exited" /\ boot.status # 0
    /\ ~boot.opened /\ ~boot.polling /\ boot.instances = 0
    /\ sched = IdlePass /\ cmd = IdleCommand
    /\ db = <<>> /\ schedPub = NoPublishes

\* The token is set, the channel identity is the placeholder, and the process has
\* exited with status 1.
C23_Witness ==
  /\ boot.pc = "exited" /\ boot.status = 1
  /\ boot.config.token = "set" /\ boot.config.channel = "placeholder"

\* C24: no firing of the interval trigger starts process_courses while another
\* process_courses is running; the scheduler has no instance of the job before the
\* startup pass has returned, and a firing that finds a pass running leaves the
\* pass as it is.
C24_OneScheduledPassAtATime ==
  /\ [](~boot.overlap)
  /\ [](boot.pc # "serving" => boot.instances = 0 /\ ~boot.skipped)
  /\ [][(boot.pc # "serving" /\ boot'.pc = "serving") => sched.pc = "done"]_vars
  /\ [][(boot.pc = "serving" /\ sched.pc \in {"await_post", "sleep"} /\ boot' # boot) =>
          (sched' = sched /\ boot'.skipped /\ boot'.instances = boot.instances)]_vars

\* The trigger fired while the pass it had started earlier was awaiting
\* post_course, and the firing was skipped.
C24_Witness ==
  /\ boot.pc = "serving" /\ boot.skipped /\ boot.instances = 1
  /\ sched.pc = "await_post"

(***************************************************************************)
(* Properties of the order of the stages                                   *)
(***************************************************************************)

Handled == IF sched.pc = "sleep" THEN sched.idx ELSE sched.idx - 1

PosIn(page, l) == CHOOSE i \in 1..Len(page) : page[i] = l

\* The candidates of todo stand in the order the page has them in.
InPageOrder(todo, page) ==
  \A i, j \in 1..Len(todo) :
    i < j => PosIn(page, todo[i].coupon_link) < PosIn(page, todo[j].coupon_link)

\* C27: in a scheduled pass and in /test the candidates to post stand in the order
\* scrape_all returned them in, post_course is called for them one after the other
\* in that order, and every candidate posted earlier in the pass stands before the
\* one posted now.
C27_PublishedInExtractionOrder ==
  /\ [](sched.pc \in {"await_post", "sleep"} => InPageOrder(sched.new, sched.page))
  /\ [](cmd.kind = "test" /\ cmd.pc \in {"await_post", "sleep"} =>
          InPageOrder(cmd.todo, cmd.page))
  /\ [][(sched.pc = "await_post" /\ sched' # sched) =>
          /\ sched'.ev.link = sched.new[sched.idx].coupon_link
          /\ \A l \in sched.pubs :
               PosIn(sched.page, l) < PosIn(sched.page, sched'.ev.link)]_vars
  /\ [][(sched.pc = "sleep" /\ sched'.pc = "await_post") =>
          sched'.idx = sched.idx + 1]_vars
  /\ [][(cmd.kind = "test" /\ cmd.pc = "await_post" /\ cmd' # cmd) =>
          cmd'.ev.link = cmd.todo[cmd.idx].coupon_link]_vars
  /\ [][(cmd.kind = "test" /\ cmd.pc = "sleep" /\ cmd'.pc = "await_post") =>
          cmd'.idx = cmd.idx + 1]_vars

\* A scheduled pass has posted the first candidate of the page and is posting the
\* second, while /test, having posted the first, is posting the second as well.
C27_Witness ==
  /\ sched.pc = "await_post" /\ sched.idx = 2
  /\ sched.new[1].coupon_link \in sched.pubs
  /\ sched.page = <<sched.new[1].coupon_link, sched.new[2].coupon_link>>
  /\ cmd.kind = "test" /\ cmd.pc = "await_post" /\ cmd.idx = 2 /\ cmd.ev.ok

\* C28: in a scheduled pass and in /test the 2 s sleep is taken right after every
\* successful post that another post of the same pass follows, so two successful
\* posts of one pass have a sleep between them; the scheduled pass sleeps only
\* after a successful post, never for a candidate it dropped as a duplicate.
C28_DelayBetweenPublishes ==
  /\ [][(sched.pc = "await_post" /\ sched'.pc = "await_post" /\ sched' # sched) =>
          ~sched'.ev.ok]_vars
  /\ [][(sched.pc # "sleep" /\ sched'.pc = "sleep") =>
          /\ sched.pc = "await_post" /\ sched'.ev.ok
          /\ sched'.ev.link = sched.new[sched.idx].coupon_link
          /\ sched'.ev.link \notin sched.dropped]_vars
  /\ [][(sched.pc \in {"idle", "done"} /\ sched' # sched) =>
          sched'.pc \in {"done", "await_post"}]_vars
  /\ [][(cmd.kind = "test" /\ cmd.pc = "await_post" /\ cmd' # cmd) =>
          cmd'.pc = IF cmd.idx < Len(cmd.todo) THEN "sleep" ELSE "done"]_vars
  /\ [][(cmd.kind = "test" /\ cmd'.pc = "await_post" /\ cmd.pc # "await_post") =>
          (cmd.pc = "sleep" \/ cmd'.idx = 1)]_vars

\* A scheduled pass dropped its candidates as duplicates and returned without a
\* sleep, while /test, having slept after its first successful post, is posting
\* its second candidate.
C28_Witness ==
  /\ sched.dropped # {} /\ sched.pc = "done" /\ sched.posted_count = 0
  /\ cmd.kind = "test" /\ cmd.pc = "await_post" /\ cmd.idx = 2 /\ cmd.ev.ok

(***************************************************************************)
(* The command handlers when an exception is raised in them, and           *)
(* handle_test_sample_command.                                             *)
(***************************************************************************)

\* The sample course of /test_sample.
SampleCourse ==
  [title |-> <<"S", "a", "m", "p", "l", "e">>, coupon_link |-> <<UDEMY, COURSE, "s">>,
   udemy_url |-> <<UDEMY, COURSE, "s">>]

\* /test_sample after the delete: the handler awaits the status message.
SampleStatus ==
  /\ cmd.pc = "delete" /\ cmd.kind = "test_sample"
  /\ cmd' = [cmd EXCEPT !.pc = "status", !.todo = <<SampleCourse>>, !.idx = 1]
  /\ UNCHANGED <<db, last, callers, resolve, sched, schedPub, extract, boot, post>>

\* /test_sample: the status message is sent; post_course is called and awaited.
SamplePost ==
  /\ cmd.pc = "status" /\ cmd.kind = "test_sample"
  /\ cmd' = [cmd EXCEPT !.pc = "await_post"]
  /\ UNCHANGED <<db, last, callers, resolve, sched, schedPub, extract, boot, post>>

\* /test_sample: post_course returns; nothing is recorded; the handler awaits the
\* edit of the status message.
SamplePostReturns(success) ==
  /\ cmd.pc = "await_post" /\ cmd.kind = "test_sample"
  /\ cmd' = [cmd EXCEPT !.pc = "final", !.ev = PostEvent(SampleCourse, success, FALSE)]
  /\ UNCHANGED <<db, last, callers, resolve, sched, schedPub, extract, boot, post>>

\* /test_sample: the edit is done and the handler returns.
SampleDone ==
  /\ cmd.pc = "final" /\ cmd.kind = "test_sample"
  /\ cmd' = Returned(cmd, cmd.ev)
  /\ UNCHANGED <<db, last, callers, resolve, sched, schedPub, extract, boot, post>>

\* The except clause of no handler tells the operator.
ReportsNever(kind) == FALSE

\* The handlers whose except clause tells the operator: /test only logs.
Reports(kind) == kind \in {"test_scrape", "test_sample"}

\* The handler after an exception reached its outer except clause.
Caught(handler, bound) ==
  IF Reports(handler.kind)
  THEN [handler EXCEPT !.pc = "error_edit", !.err.raised = TRUE, !.err.bound = bound]
  ELSE [Returned(handler, handler.ev) EXCEPT !.err.raised = TRUE]

\* /test: scrape_all raises, or an exception reaches the outer except clause: it
\* is logged and the handler returns.
TestRaises ==
  /\ cmd.pc = "delete" /\ cmd.kind = "test"
  /\ cmd' = Caught(cmd, FALSE)
  /\ UNCHANGED <<db, last, callers, resolve, sched, schedPub, extract, boot, post>>

\* /test: an exception is raised while a candidate is processed: it is logged and
\* the loop continues with the next candidate, without the sleep.
TestCourseRaises(udemy_url) ==
  /\ cmd.pc \in {"await_post", "sleep"} /\ cmd.kind = "test"
  /\ cmd' = IF cmd.idx < Len(cmd.todo)
            THEN [cmd EXCEPT !.pc = "await_post", !.idx = @ + 1,
                             !.todo[cmd.idx + 1].udemy_url = udemy_url,
                             !.err.raised = TRUE]
            ELSE [Returned(cmd, cmd.ev) EXCEPT !.err.raised = TRUE]
  /\ UNCHANGED <<db, last, callers, resolve, sched, schedPub, extract, boot, post>>

\* /test_scrape, /test_sample: an exception is raised at or after an await of the
\* handler.  status_msg is unbound when the send of the status message raised.
HandlerRaises(bound) ==
  /\ cmd.kind \in {"test_scrape", "test_sample"}
  /\ cmd.pc \in {"status", "edit", "await_post", "final"}
  /\ cmd.pc # "status" => bound
  /\ cmd' = Caught(cmd, bound)
  /\ UNCHANGED <<db, last, callers, resolve, sched, schedPub, extract, boot, post>>

\* The except clause: status_msg.edit_text with the error, which raises when
\* status_msg is unbound or the edit fails.
ErrorEdit(ok) ==
  /\ cmd.pc = "error_edit"
  /\ ok => cmd.err.bound
  /\ cmd' = IF ok THEN [Returned(cmd, cmd.ev) EXCEPT !.err = [cmd.err EXCEPT !.msg = "edited"]]
            ELSE [cmd EXCEPT !.pc = "error_send"]
  /\ UNCHANGED <<db, last, callers, resolve, sched, schedPub, extract, boot, post>>

\* The except clause: send_message with the error; if it raises, the exception
\* leaves the handler.
ErrorSend(ok) ==
  /\ cmd.pc = "error_send"
  /\ cmd' = [Returned(cmd, cmd.ev) EXCEPT
               !.err = IF ok THEN [cmd.err EXCEPT !.msg = "sent"]
                       ELSE [cmd.err EXCEPT !.escaped = TRUE]]
  /\ UNCHANGED <<db, last, callers, resolve, sched, schedPub, extract, boot, post>>

CmdFaultNext ==
  \/ CmdNextOn(SharedArgs)
  \/ CmdArrive("test_sample")
  \/ SampleStatus
  \/ SamplePost
  \/ \E success \in BOOLEAN : SamplePostReturns(success)
  \/ SampleDone
  \/ TestRaises
  \/ \E u \in Udemys :
       /\ cmd.pc \in {"await_post", "sleep"} /\ cmd.kind = "test"
       /\ cmd.idx < Len(cmd.todo) => u \in Resolutions(cmd.todo[cmd.idx + 1].coupon_link)
       /\ TestCourseRaises(u)
  \/ \E bound \in BOOLEAN : HandlerRaises(bound)
  \/ \E ok \in BOOLEAN : ErrorEdit(ok)
  \/ \E ok \in BOOLEAN : ErrorSend(ok)

\* The command handlers with exceptions raised in them.
SpecCmdFault == PipeInit /\ [][CmdFaultNext]_vars

(***************************************************************************)
(* TelegramChannelPoster.format_course_message and post_course.  A message *)
(* is a sequence of symbols: the characters of the scraped fields, one     *)
(* symbol per tag or entity of the markup, one per fixed phrase.           *)
(***************************************************************************)

\* html.escape(s): & < > " and ' become entities.
EscapeChar(c) ==
  CASE c = "&" -> "&amp;"
    [] c = "<" -> "&lt;"
    [] c = ">" -> "&gt;"
    [] c = "\"" -> "&quot;"
    [] c = "'" -> "&#x27;"
    [] OTHER -> c

Escape(s) == [i \in 1..Len(s) |-> EscapeChar(s[i])]

\* One line of the details section, left out when the field is None or empty.
DetailLine(label, field) ==
  IF field # None THEN <<"<b>", label, "</b>">> \o Escape(field) \o <<"\n">> ELSE <<>>

format_course_message(course) ==
  <<"<b>">> \o Escape(course.title) \o <<"</b>", "\n", "\n">>
    \o <<"<b>", "Course Details:", "</b>", "\n">>
    \o DetailLine("Language:", course.language)
    \o DetailLine("Publisher:", course.publisher)
    \o DetailLine("Rate:", course.rate)
    \o DetailLine("Enroll:", course.enroll)
    \o <<"\n", "<b>", "Get Course:", "</b>">>
    \o (IF course.udemy_url # None THEN course.udemy_url ELSE course.coupon_link)
    \o <<"\n", "\n", "<i>", "Limited time offer!", "</i>", "\n", "\n", "#DIU #Udemy #FreeCourse">>

U_amp == <<UDEMY, COURSE, "x", "?", COUPONCODE, "k", "&", "r">>
L_lt == <<SITE, GO, "a", "<">>

\* The courses handed to post_course: scraped fields with and without characters
\* of the markup, a destination or none, a thumbnail or none.
PostCourses ==
  [title : {<<"a">>, <<"a", "<", "b", ">">>},
   language : {None, <<"e", "&">>},
   publisher : {None, <<"p", "'">>},
   rate : {None, <<"4", "\"">>},
   enroll : {None, <<"1", ">">>},
   udemy_url : {None, U_x, U_amp},
   coupon_link : {L_a, L_lt},
   thumbnail : {None, <<SITE, "/", "i">>}]

\* How a send of the bot ends: delivered, a TelegramError, any other exception.
SendOutcomes == {"sent", "telegram_error", "error"}

\* except TelegramError around send_photo: the failures after which the text is sent.
PhotoFallsBack(outcome) == outcome = "telegram_error"

\* post_course(course) up to its first send.
PostCall(course) ==
  /\ post.pc = "idle"
  /\ post' = [IdlePost EXCEPT !.pc = IF course.thumbnail # None THEN "send_photo" ELSE "send_message",
                              !.course = course,
                              !.message = format_course_message(course)]
  /\ UNCHANGED <<db, last, callers, resolve, sched, cmd, schedPub, extract, boot>>

\* send_photo returns or raises.
SendPhotoReturns(outcome) ==
  /\ post.pc = "send_photo"
  /\ LET sent == [post EXCEPT !.tried = Append(@, [kind |-> "photo", outcome |-> outcome])]
     IN  post' = IF outcome = "sent" THEN [sent EXCEPT !.pc = "done", !.result = TRUE]
                 ELSE IF PhotoFallsBack(outcome) THEN [sent EXCEPT !.pc = "send_message"]
                 ELSE [sent EXCEPT !.pc = "done", !.result = FALSE]
  /\ UNCHANGED <<db, last, callers, resolve, sched, cmd, schedPub, extract, boot>>

\* send_message returns or raises.
SendMessageReturns(outcome) ==
  /\ post.pc = "send_message"
  /\ post' = [post EXCEPT !.pc = "done", !.result = (outcome = "sent"),
                          !.tried = Append(@, [kind |-> "text", outcome |-> outcome])]
  /\ UNCHANGED <<db, last, callers, resolve, sched, cmd, schedPub, extract, boot>>

\* The caller takes the result.
PostReturn ==
  /\ post.pc = "done"
  /\ post' = IdlePost
  /\ UNCHANGED <<db, last, callers, resolve, sched, cmd, schedPub, extract, boot>>

PostNext ==
  \/ post.pc = "idle" /\ \E course \in PostCourses : PostCall(course)
  \/ \E outcome \in SendOutcomes : SendPhotoReturns(outcome)
  \/ \E outcome \in SendOutcomes : SendMessageReturns(outcome)
  \/ PostReturn

SpecPost == StoreInit /\ [][PostNext]_vars

(***************************************************************************)
(* Further properties of the store                                         *)
(***************************************************************************)

\* A URL with neither a query string nor a fragment.
Bare(url) == \A k \in 1..Len(url) : url[k] \notin {"?", "#"}

\* C31: after any sequence of mark_posted calls, the coupon_link of every stored
\* row and every udemy_url that is not NULL have neither a query string nor a
\* fragment.
C31_StoredUrlsNormalized ==
  \A i \in 1..Len(db) : Bare(db[i].coupon_link) /\ Bare(db[i].udemy_url)

\* mark_posted was called with a listing URL that has a query string and a
\* destination that has one, and stored a row.
C31_Witness ==
  /\ last.op = "mark_posted" /\ last.changed
  /\ ~Bare(last.link) /\ ~Bare(last.udemy)
  /\ \E i \in 1..Len(db) : db[i].coupon_link = L_a /\ db[i].udemy_url = U_x

(***************************************************************************)
(* Further properties of the resolver                                      *)
(***************************************************************************)

\* The /go/ hrefs of a page, in document order.
GoHrefs(page) == SelectSeq(page.hrefs, LAMBDA h : InText({GO}, h))

\* A Udemy destination shows on a page: in its final URL, in a link, or in a
\* button's onclick.
ShowsUdemy(page) ==
  \/ InText({UDEMY, HOST}, page.url)
  \/ \E i \in 1..Len(page.hrefs) : InText({UDEMY, HOST}, page.hrefs[i])
  \/ \E i \in 1..Len(page.onclick) :
       InText({UDEMY, HOST}, page.onclick[i]) /\ page.onclick[i][1] = UDEMY

\* A request of get_udemy_course_info has just returned a page.
Fetched == resolve.pc = "get" /\ resolve'.requests = resolve.requests + 1 /\ ~resolve'.page.raise

\* C32 as stated: when the landing page of a /go/ link shows no Udemy destination
\* but a further /go/ link, and the depth bound allows it, the call recurses on
\* that link one level deeper.
C32_ChainedGoFollowed ==
  [][(/\ Fetched /\ InText({GO}, resolve.link)
      /\ ~ShowsUdemy(resolve'.page) /\ GoHrefs(resolve'.page) # <<>>
      /\ resolve.depth < MaxRecursionDepth)
       => (resolve'.pc = "get" /\ resolve'.depth = resolve.depth + 1)]_vars

\* C32, amended: when the landing page of a link that is not a /go/ link shows a
\* /go/ link, the call recurses on the first such link, put on the site when it
\* is relative, one level deeper (and returns at once when that level is above
\* the bound), so a destination that shows on the page reached through a course
\* page and one /go/ page is returned; the landing page of a /go/ link is never
\* recursed from.
C32_RecursesFromCoursePage ==
  /\ [][Fetched =>
          IF InText({GO}, resolve.link)
          THEN resolve'.pc = "done" /\ resolve'.depth = resolve.depth
          ELSE GoHrefs(resolve'.page) # <<>> =>
                 /\ resolve'.depth = resolve.depth + 1
                 /\ resolve'.link =
                      LET g == Head(GoHrefs(resolve'.page))
                      IN  IF g[1] \in {"/", GO, COURSE, CATEGORY, TAG} THEN <<SITE>> \o g ELSE g
                 /\ resolve'.pc = IF resolve.depth + 1 > MaxRecursionDepth THEN "done" ELSE "get"]_vars
  /\ []((/\ resolve.pc = "done" /\ resolve.depth = resolve.entered + 1
         /\ resolve.requests = 2 /\ ~resolve.page.raise /\ ShowsUdemy(resolve.page))
          => resolve.out # None)

\* A call on a course page followed the page's relative /go/ link, completed to
\* the site, and returned the Udemy link of the page behind it.
C32_Witness ==
  /\ resolve.pc = "done" /\ resolve.entered = 0 /\ resolve.depth = 1
  /\ resolve.requests = 2 /\ resolve.link = L_a
  /\ ~resolve.page.raise /\ resolve.out = U_xc

\* C37: a call of get_udemy_course_info makes at most one recursive call: the
\* depth it reaches is at most one above the depth it was entered with, it issues
\* at most two requests, a recursive call is always on a /go/ link, and a call
\* entered at depth 0 never reaches a depth above the bound.
C37_AtMostOneRecursion ==
  /\ resolve.depth <= resolve.entered + 1
  /\ resolve.requests <= 2
  /\ resolve.depth > resolve.entered => InText({GO}, resolve.link)
  /\ resolve.entered = 0 => resolve.depth <= MaxRecursionDepth

\* A call on a course page recursed once, and the /go/ page it reached showed a
\* further /go/ link and no Udemy destination: the call returned nothing at
\* depth 1.
C37_Witness ==
  /\ resolve.pc = "done" /\ resolve.entered = 0 /\ resolve.depth = 1
  /\ resolve.requests = 2 /\ ~resolve.page.raise
  /\ GoHrefs(resolve.page) # <<>> /\ ~ShowsUdemy(resolve.page)
  /\ resolve.out = None

(***************************************************************************)
(* Properties of the poster                                                *)
(***************************************************************************)

\* The sends of the running post_course call that were delivered.
Delivered == SelectSeq(post.tried, LAMBDA t : t.outcome = "sent")

\* The first send comes first whenever a thumbnail is present, the call reports
\* success exactly when a send was delivered, and at most one send is delivered.
PostShape ==
  /\ (post.tried # <<>> /\ post.course.thumbnail # None) => post.tried[1].kind = "photo"
  /\ post.course.thumbnail = None => \A i \in 1..Len(post.tried) : post.tried[i].kind = "text"
  /\ post.pc = "done" => (post.result <=> Delivered # <<>>)
  /\ Len(Delivered) <= 1
  /\ \A i \in 1..Len(post.tried) : post.tried[i].kind = "photo" => i = 1

\* C33 as stated: a post_course call sends the photo first when there is a
\* thumbnail, sends the text whenever the photo was not delivered, reports
\* success exactly when one of the two was delivered, and never delivers both.
C33_FallbackOnAnyFailure ==
  /\ PostShape
  /\ (post.pc = "done" /\ post.tried # <<>> /\ post.tried[1] = [kind |-> "photo", outcome |-> "error"])
       => (Len(post.tried) = 2 /\ post.tried[2].kind = "text")
  /\ (post.pc = "done" /\ post.tried # <<>> /\ post.tried[1] = [kind |-> "photo", outcome |-> "telegram_error"])
       => (Len(post.tried) = 2 /\ post.tried[2].kind = "text")

\* The characters Telegram's HTML parse mode reads as markup.
Raw == {"&", "<", ">"}

\* C34: no character of a scraped field (title, language, publisher, rating,
\* enrollment count, destination or listing URL) stands unescaped in the message
\* post_course sends.
C34_AllFieldsEscaped ==
  post.pc # "idle" => \A i \in 1..Len(post.message) : post.message[i] \notin Raw

(***************************************************************************)
(* Further properties of the extractor                                     *)
(***************************************************************************)

\* C36: no two courses returned by one scrape_couponami call have the same
\* coupon_link once the query string and the fragment are cut off, whichever
\* methods collected the links and however often a link stands on the page.
C36_NormalizedLinksDistinct ==
  extract.pc = "returned" =>
    \A i, j \in 1..Len(extract.courses) :
      Normalize(extract.courses[i].coupon_link) = Normalize(extract.courses[j].coupon_link)
        => i = j

\* A page held /go/abc123 and its variant with a query string, both collected and
\* both with a title: one course was returned, for the link met first.
C36_Witness ==
  /\ extract.pc = "returned" /\ extract.status = "ok"
  /\ extract.page = <<Parsed(A_go, "no"), Parsed(A_txt, "no")>>
  /\ Len(CourseLinks(extract.page)) = 2
  /\ extract.courses = <<[title |-> X_intro, coupon_link |-> <<SITE>> \o H_abc]>>

(***************************************************************************)
(* Properties of the command handlers under exceptions                     *)
(***************************************************************************)

\* A handler returned after an exception was raised in it, and no exception left it.
Excepted == cmd.pc = "done" /\ cmd.err.raised /\ ~cmd.err.escaped

\* C35 as stated: for /test, /test_scrape and /test_sample alike, when an
\* exception was raised in the handler the operator got an error message (unless
\* sending that message failed as well).
C35_OperatorToldOfError == Excepted => cmd.err.msg # "none"

\* C35, amended: when an exception was raised in the handler of /test_scrape or
\* /test_sample the operator got an error message, edited into the status message
\* or sent as a new message (unless both of these raised, and then the exception
\* left the handler); /test tells the operator nothing, whatever is raised; and
\* no error message is sent where nothing was raised.
C35_ScrapeAndSampleTellOperator ==
  /\ (Excepted /\ cmd.kind \in {"test_scrape", "test_sample"}) => cmd.err.msg \in {"edited", "sent"}
  /\ cmd.kind = "test" => (cmd.err.msg = "none" /\ ~cmd.err.escaped)
  /\ cmd.err.msg # "none" => cmd.err.raised
  /\ cmd.err.escaped => (cmd.err.raised /\ cmd.err.msg = "none")
  /\ (cmd.err.msg = "edited" => cmd.err.bound)

\* The send of the status message of /test_scrape raised: status_msg was unbound,
\* the edit in the except clause raised, and the error went out as a new message.
C35_Witness ==
  /\ Excepted /\ cmd.kind = "test_scrape"
  /\ ~cmd.err.bound /\ cmd.err.msg = "sent"

(***************************************************************************)
(* Further properties of the command handlers                              *)
(***************************************************************************)

\* C39: /test_scrape goes on to post the first course scrape_all returned whether
\* or not the store knows it, and when the handler has posted a listing that was
\* recorded before, the store holds exactly one row for that listing's normalized
\* URL, whether the post succeeded or not.
C39_ScrapePostsKnownListing ==
  /\ [][(cmd.kind = "test_scrape" /\ cmd.pc = "status" /\ cmd'.pc # "status"
         /\ cmd'.page # <<>>)
          => (cmd'.pc = "edit" /\ cmd'.todo[1].coupon_link = cmd'.page[1])]_vars
  /\ []((/\ cmd.kind = "test_scrape" /\ cmd.pc \in {"final", "done"}
         /\ cmd.ev.link # None /\ ~cmd.fresh)
          => RowsFor(db, cmd.ev.link) = 1)

\* A scheduled pass published and recorded a listing; /test_scrape then met it
\* first on the page, published it again, and the store holds one row for it.
C39_Witness ==
  /\ cmd.kind = "test_scrape" /\ cmd.pc = "done" /\ ~cmd.fresh
  /\ cmd.ev.link # None /\ cmd.ev.ok /\ cmd.ev.rec = cmd.ev.link
  /\ schedPub[Normalize(cmd.ev.link)] >= 1
  /\ RowsFor(db, cmd.ev.link) = 1

(***************************************************************************)
(* Further properties of the scheduled pass                                *)
(***************************************************************************)

\* No stored row is the same course as the listing by the rules on the Udemy slug
\* and the title, whatever the resolver returns for it.
NoOtherRuleKnows(rows, coupon_link) ==
  \A c \in PageCands : \A u \in Resolutions(c.coupon_link) :
    c.coupon_link = coupon_link => ~is_posted(rows, None, u, c.title)

\* C38: a post that fails in a scheduled pass leaves the table as it was, and
\* the listing of a pass's last, failed post, for which the table holds no row and
\* which no rule on slug or title takes for a stored course, is not dropped as
\* known by the pass that follows: it is kept for another post (as it must be for
\* every listing that stays on the page to be published and recorded in the end).
C38_FailedPublishRetried ==
  /\ [][(sched.pc = "await_post" /\ sched'.ev.link = sched.new[sched.idx].coupon_link
         /\ ~sched'.ev.ok /\ sched' # sched)
          => db' = db]_vars
  /\ [][(/\ sched.pc = "done" /\ sched' # sched
         /\ sched.ev.link # None /\ ~sched.ev.ok
         /\ RowsFor(db, sched.ev.link) = 0
         /\ NoOtherRuleKnows(db, sched.ev.link))
          => sched.ev.link \notin sched'.dropped]_vars

====
